---- MODULE Spec2Model ----
(***************************************************************************)
(* A model of the mixed-build coordination core of Soong                   *)
(* (android/bazel_handler.go, here src/cc/bp2build.go lines 211-982, and   *)
(* cmd/soong_build/main.go, here src/unnamed/part_004).                    *)
(*                                                                         *)
(* Strings are sequences of symbols.  A symbol is one character ("/",      *)
(* ">", "|", "\n") or a word that no modelled operation looks inside       *)
(* ("@sourceroot", "arm64", "a").                                          *)
(***************************************************************************)
EXTENDS Naturals, Sequences, FiniteSets, TLC

VARIABLES
    ctx,              \* which BazelContext implementation the config holds
    requests,         \* bazelContext.requests: the set of queued cqueryKeys
    results,          \* bazelContext.results: cqueryKey -> raw result string
    buildStatements,  \* bazelContext.buildStatements
    issued,           \* the bazelCommands issued to the bazelRunner, in order, each
                      \* with whether the runner answered it with an error
    ret,              \* the most recent call on the context and what it returned
    pc,               \* position of the caller (soong_build's main flow, or a test)
    ipc,              \* position inside a running InvokeBazel ("idle": none runs)
    cqueryOutput,     \* InvokeBazel's local cqueryOutput
    err,              \* InvokeBazel's local err
    buildFile,        \* the file BUILD.bazel of the intermediates directory
    cqueryFile,       \* the file buildroot.cquery of the intermediates directory
    env,              \* the environment the config reads with Getenv
    fs,               \* the files of the build directory: path -> content
    labelLists,       \* the arguments and results of the label functions of package bazel
    paths,            \* bazelContext.paths
    rules,            \* the rules bazelSingleton has built in the analysis context
    ninjaFileDeps,    \* the ninja file deps bazelSingleton has added to it; the
                      \* extraNinjaDeps given to writeFakeNinjaFile
    threads,          \* the goroutines inside cquery: where each is, its key, its view of the map
    requestMutex,     \* bazelContext.requestMutex: the goroutine that holds it, or Unlocked
    prior,            \* what results held when InvokeBazel was last called
    consumed          \* the keys that were pending when a cquery command was issued

vars == <<ctx, requests, results, buildStatements, issued, ret, pc,
          ipc, cqueryOutput, err, buildFile, cqueryFile, env, fs, labelLists, paths, rules,
          ninjaFileDeps,
          threads, requestMutex, prior, consumed>>

-----------------------------------------------------------------------------
(* Bounds of the model. *)

\* Most keys ever queued at once.
MaxPending == 2
\* Most lines in one cquery stdout.
MaxLines == 2
\* Most requests of a request set the script files are written for.
MaxRequests == 3
\* Most goroutines inside cquery at one time.
MaxWorkers == 2
\* Most build statements handed to the bazelSingleton.
MaxStatements == 3
\* The longest list of extra ninja deps given to writeFakeNinjaFile.
MaxDeps == 3
\* The longest list of labels given to LabelList.Append.
MaxAppend == 2
\* The longest list of labels given to UniqueBazelLabels.
MaxLabels == 3

-----------------------------------------------------------------------------
(* Go's strings package, as used by the handler. *)

Min(S) == CHOOSE i \in S : \A j \in S : i <= j

\* strings.HasPrefix
HasPrefix(s, prefix) ==
    Len(s) >= Len(prefix) /\ SubSeq(s, 1, Len(prefix)) = prefix

\* strings.Index, 1-based; 0 when sep does not occur in s
Index(s, sep) ==
    LET at == {i \in 1..(Len(s) + 1) :
                  i + Len(sep) - 1 <= Len(s) /\ SubSeq(s, i, i + Len(sep) - 1) = sep}
    IN IF at = {} THEN 0 ELSE Min(at)

\* strings.Contains
Contains(s, sep) == Index(s, sep) # 0

\* A split at the last occurrence of sep.
SplitLast(s, sep) ==
    LET at == {i \in 1..(Len(s) + 1) :
                  i + Len(sep) - 1 <= Len(s) /\ SubSeq(s, i, i + Len(sep) - 1) = sep}
        i  == CHOOSE j \in at : \A k \in at : k <= j
    IN IF at = {} THEN <<s>>
       ELSE <<SubSeq(s, 1, i - 1), SubSeq(s, i + Len(sep), Len(s))>>

\* A split at every occurrence of sep, as strings.Split does it.
SplitEvery(s, sep) ==
    LET at   == {i \in 1..(Len(s) + 1) :
                    i + Len(sep) - 1 <= Len(s) /\ SubSeq(s, i, i + Len(sep) - 1) = sep}
        i    == IF at = {} THEN 0 ELSE Min(at)
        rest == SubSeq(s, i + Len(sep), Len(s))
        next == {j \in 1..(Len(rest) + 1) :
                    j + Len(sep) - 1 <= Len(rest) /\ SubSeq(rest, j, j + Len(sep) - 1) = sep}
    IN IF i = 0 THEN <<s>>
       ELSE <<SubSeq(s, 1, i - 1),
              IF next = {} THEN rest ELSE SubSeq(rest, 1, Min(next) - 1)>>

\* strings.SplitN(s, sep, 2)
SplitN2(s, sep) ==
    LET i == Index(s, sep)
    IN IF i = 0 THEN <<s>>
       ELSE <<SubSeq(s, 1, i - 1), SubSeq(s, i + Len(sep), Len(s))>>

RECURSIVE Split(_, _)
\* strings.Split
Split(s, sep) ==
    LET i == Index(s, sep)
    IN IF i = 0 THEN <<s>>
       ELSE <<SubSeq(s, 1, i - 1)>> \o Split(SubSeq(s, i + Len(sep), Len(s)), sep)

RECURSIVE Join(_, _)
\* strings.Join
Join(elems, sep) ==
    IF elems = <<>> THEN <<>>
    ELSE IF Len(elems) = 1 THEN elems[1]
    ELSE elems[1] \o sep \o Join(Tail(elems), sep)

NL  == <<"\n">>
Sep == <<">", ">">>

-----------------------------------------------------------------------------
(* cqueryKey and the ids derived from it. *)

\* Labels as modules pass them: with and without the leading "//".
Labels == { <<"/", "/", "a">>, <<"a">> }

\* cquery.GetOutputFiles and cquery.GetCcInfo, by name.
RequestTypes == {"getOutputFiles", "getCcInfo"}

\* ArchType values; the zero ArchType has the empty Name.
Arm64  == [Name |-> <<"arm64">>]
X86_64 == [Name |-> <<"x86_64">>]
NoArch == [Name |-> <<>>]
ArchTypes == {Arm64, X86_64, NoArch}

\* The requests the modules of the build make: one request, and the requests
\* that differ from it in the label, in the request type or in the
\* architecture alone.
BaseKey == [label |-> <<"/", "/", "a">>, requestType |-> "getOutputFiles", archType |-> Arm64]
Keys ==
    {k \in [label : Labels, requestType : RequestTypes, archType : ArchTypes] :
        \/ k.label = BaseKey.label /\ k.requestType = BaseKey.requestType
        \/ k.label = BaseKey.label /\ k.archType = BaseKey.archType
        \/ k.requestType = BaseKey.requestType /\ k.archType = BaseKey.archType}

\* cqueryRequest.Name()
Name(requestType) == <<requestType>>

canonicalizeLabel(label) ==
    IF HasPrefix(label, <<"/", "/">>)
    THEN <<"@sourceroot">> \o label
    ELSE <<"@sourceroot", "/", "/">> \o label

\* An architecture string that ignores the architecture.
getArchStringFixed(key) == <<"x86_64">>

getArchString(key) ==
    LET arch == key.archType.Name
    IN IF Len(arch) > 0 THEN arch ELSE <<"x86_64">>

getCqueryId(key) == canonicalizeLabel(key.label) \o <<"|">> \o getArchString(key)

-----------------------------------------------------------------------------
(* Go ranges over a map in an unspecified order: every loop over requests  *)
(* or over a map built from it is modelled for each order of its keys.     *)

\* The sequences that enumerate the set S once each.
Perms(S) ==
    {f \in [1..Cardinality(S) -> S] : \A i, j \in 1..Cardinality(S) : f[i] = f[j] => i = j}

Range(f) == {f[i] : i \in DOMAIN f}

-----------------------------------------------------------------------------
(* The root build file (BUILD.bazel), kept as its parts: the config_node   *)
(* targets in the order they are printed, and the deps of buildroot and of *)
(* phonyroot.                                                              *)

Quoted(s) == <<"\"">> \o s \o <<"\"">>

RECURSIVE labelsByArchRaw(_)
\* A grouping by the name of the architecture as it is in the key.
labelsByArchRaw(order) ==
    IF order = <<>> THEN <<>>
    ELSE LET n           == Len(order)
             val         == order[n]
             before      == labelsByArchRaw(SubSeq(order, 1, n - 1))
             labelString == Quoted(canonicalizeLabel(val.label))
             archString  == val.archType.Name
             old         == IF archString \in DOMAIN before THEN before[archString] ELSE <<>>
         IN [a \in (DOMAIN before) \cup {archString} |->
                IF a = archString THEN Append(old, labelString) ELSE before[a]]

RECURSIVE labelsByArch(_)
\* The map labelsByArch after ranging over the requests in this order.
labelsByArch(order) ==
    IF order = <<>> THEN <<>>
    ELSE LET n           == Len(order)
             val         == order[n]
             before      == labelsByArch(SubSeq(order, 1, n - 1))
             labelString == Quoted(canonicalizeLabel(val.label))
             archString  == getArchString(val)
             old         == IF archString \in DOMAIN before THEN before[archString] ELSE <<>>
         IN [a \in (DOMAIN before) \cup {archString} |->
                IF a = archString THEN Append(old, labelString) ELSE before[a]]

\* A root build file whose buildroot depends on the first config_node only.
mainBuildFileContentsFirstArch(order, archOrder) ==
    LET byArch == labelsByArch(order)
    IN [configNodes   |-> [i \in DOMAIN archOrder |->
                              [name |-> archOrder[i],
                               arch |-> archOrder[i],
                               deps |-> byArch[archOrder[i]]]],
        buildrootDeps |-> IF archOrder = <<>> THEN <<>>
                          ELSE <<Quoted(<<":">> \o archOrder[1])>>,
        phonyrootDeps |-> <<Quoted(<<":", "buildroot">>)>>]

\* order: the order the range over requests takes; archOrder: the order the
\* range over labelsByArch takes.
mainBuildFileContents(order, archOrder) ==
    LET byArch == labelsByArch(order)
    IN [configNodes   |-> [i \in DOMAIN archOrder |->
                              [name |-> archOrder[i],
                               arch |-> archOrder[i],
                               deps |-> byArch[archOrder[i]]]],
        buildrootDeps |-> [i \in DOMAIN archOrder |-> Quoted(<<":">> \o archOrder[i])],
        phonyrootDeps |-> <<Quoted(<<":", "buildroot">>)>>]

\* No BUILD.bazel has been written.
NoBuildFile == [configNodes |-> <<>>, buildrootDeps |-> <<>>, phonyrootDeps |-> <<>>]

\* Every content mainBuildFileContents can return for the request set reqs.
BuildFiles(reqs) ==
    UNION {{mainBuildFileContents(order, archOrder) :
               archOrder \in Perms(DOMAIN labelsByArch(order))} : order \in Perms(reqs)}

-----------------------------------------------------------------------------
(* The result-dispatch script (buildroot.cquery), kept as its parts: the    *)
(* label maps, the function definitions and the branches of the main       *)
(* switch, each in the order it is printed.                                *)

RECURSIVE requestTypeToCqueryIdEntriesLast(_)
\* A map that keeps, for each request type, the entry of the last request
\* only.
requestTypeToCqueryIdEntriesLast(order) ==
    IF order = <<>> THEN <<>>
    ELSE LET n              == Len(order)
             val            == order[n]
             before         == requestTypeToCqueryIdEntriesLast(SubSeq(order, 1, n - 1))
             mapEntryString == Quoted(getCqueryId(val)) \o <<":", "True">>
         IN [t \in (DOMAIN before) \cup {val.requestType} |->
                IF t = val.requestType THEN <<mapEntryString>> ELSE before[t]]

RECURSIVE requestTypeToCqueryIdEntries(_)
\* The map requestTypeToCqueryIdEntries after ranging over the requests in
\* this order.
requestTypeToCqueryIdEntries(order) ==
    IF order = <<>> THEN <<>>
    ELSE LET n              == Len(order)
             val            == order[n]
             before         == requestTypeToCqueryIdEntries(SubSeq(order, 1, n - 1))
             cqueryId       == getCqueryId(val)
             mapEntryString == Quoted(cqueryId) \o <<":", "True">>
             old            == IF val.requestType \in DOMAIN before
                               THEN before[val.requestType] ELSE <<>>
         IN [t \in (DOMAIN before) \cup {val.requestType} |->
                IF t = val.requestType THEN Append(old, mapEntryString) ELSE before[t]]

\* order: the order the range over requests takes; typeOrder: the order the
\* range over requestTypeToCqueryIdEntries takes.
cqueryStarlarkFileContents(order, typeOrder) ==
    LET entries == requestTypeToCqueryIdEntries(order)
    IN [labelMaps    |-> [i \in DOMAIN typeOrder |->
                             [name    |-> Name(typeOrder[i]) \o <<"_Labels">>,
                              entries |-> entries[typeOrder[i]]]],
        functionDefs |-> [i \in DOMAIN typeOrder |->
                             [name |-> Name(typeOrder[i]) \o <<"_Fn">>,
                              body |-> typeOrder[i]]],
        mainSwitch   |-> [i \in DOMAIN typeOrder |->
                             [labels |-> Name(typeOrder[i]) \o <<"_Labels">>,
                              fn     |-> Name(typeOrder[i]) \o <<"_Fn">>]]]

\* No buildroot.cquery has been written.
NoCqueryFile == [labelMaps |-> <<>>, functionDefs |-> <<>>, mainSwitch |-> <<>>]

\* Every content cqueryStarlarkFileContents can return for the request set
\* reqs.
CqueryFiles(reqs) ==
    UNION {{cqueryStarlarkFileContents(order, typeOrder) :
               typeOrder \in Perms(DOMAIN requestTypeToCqueryIdEntries(order))} :
           order \in Perms(reqs)}

\* What format(target) of the script returns for a target of this id: the
\* id, ">>" and the result of the function of the first branch of the main
\* switch whose label map has the id, or the id and ">>NONE".
format(file, idString) ==
    LET has(i) == \E m \in DOMAIN file.labelMaps :
                     /\ file.labelMaps[m].name = file.mainSwitch[i].labels
                     /\ Quoted(idString) \o <<":", "True">>
                            \in Range(file.labelMaps[m].entries)
        taken  == {i \in DOMAIN file.mainSwitch : has(i)}
    IN IF taken = {}
       THEN idString \o Sep \o <<"NONE">>
       ELSE idString \o Sep \o <<file.mainSwitch[Min(taken)].fn, "(target)">>

-----------------------------------------------------------------------------
(* Errors and return values. *)

NoErr == [kind |-> "nil"]
\* ioutil.WriteFile failed on this file of the intermediates directory
WriteErr(file) == [kind |-> "write", file |-> file]
\* "bazel command failed. command: [...], env: [...], error [...]"
CommandErr(command) == [kind |-> "bazel command failed", command |-> command]
\* A missing-result error without the query output.
MissingErrBare(id, output) == [kind |-> "missing result", id |-> id, output |-> <<>>]

\* "missing result for bazel target %s. query output: [%s], cquery err: [%s]"
MissingErr(id, output) == [kind |-> "missing result", id |-> id, output |-> output]
\* the error of bazel.AqueryBuildStatements
AqueryParseErr == [kind |-> "aquery parse"]

NoKey == [label |-> <<>>, requestType |-> "none", archType |-> NoArch]

\* A call that returned normally.
Returned(op, key, value, ok, e) ==
    [op |-> op, key |-> key, value |-> value, ok |-> ok, err |-> e,
     state |-> "returned"]
\* A call that panicked: the process is gone.
Panicked(op, key) ==
    [op |-> op, key |-> key, value |-> <<>>, ok |-> FALSE, err |-> NoErr,
     state |-> "panicked"]
\* A call that has not returned yet.
Running(op) ==
    [op |-> op, key |-> NoKey, value |-> <<>>, ok |-> FALSE, err |-> NoErr,
     state |-> "running"]

-----------------------------------------------------------------------------
(* What the remote engine and the file system may answer. *)

\* An id bazel prints for a dependency nobody requested.
DepId == <<"@sourceroot", "/", "/", "d", "|", "arm64">>

Detail == <<"o">>

\* Result strings: a bare detail, and a detail behind a kind name and ">>".
Payloads == {Detail, Name("getOutputFiles") \o Sep \o Detail}

OutputLines ==
    {getCqueryId(k) \o Sep \o p : k \in Keys, p \in Payloads}
    \cup {DepId \o Sep \o <<"NONE">>}
    \cup {<<"INFO", ">">>}

\* The stdout of the cquery command: up to MaxLines lines joined by newlines.
Outputs ==
    {Join(ls, NL) : ls \in UNION {[1..n -> OutputLines] : n \in 0..MaxLines}}

cqueryCommand == [command |-> "cquery", expression |-> "kind(rule, deps(//:buildroot))"]
aqueryCommand == [command |-> "aquery", expression |-> "deps(//:buildroot)"]
buildCommand  == [command |-> "build", expression |-> "//:phonyroot"]

\* builtinBazelRunner.issueBazelCommand returns ("", stderr, error) when the
\* process fails and (stdout, stderr, nil) otherwise.
CqueryResponses ==
    {[out |-> o, err |-> NoErr] : o \in Outputs}
    \cup {[out |-> <<>>, err |-> CommandErr(cqueryCommand)]}

\* bazel.BuildStatement
Stmt1 == [Mnemonic |-> "CppCompile", Command |-> <<"clang">>,
          OutputPaths |-> <<"a.o">>, InputPaths |-> <<"a.cc">>, Depfile |-> <<>>]

\* The action dump, as the records it holds, or text that is no action dump.
AqueryOutputs ==
    {[wellFormed |-> TRUE, actions |-> <<>>],
     [wellFormed |-> TRUE, actions |-> <<Stmt1>>],
     [wellFormed |-> FALSE, actions |-> <<>>]}
NoAqueryOutput == [wellFormed |-> FALSE, actions |-> <<>>]

AqueryResponses ==
    {[out |-> o, err |-> NoErr] : o \in AqueryOutputs}
    \cup {[out |-> NoAqueryOutput, err |-> CommandErr(aqueryCommand)]}

\* bazel.AqueryBuildStatements: the statements of the dump, or an error.
AqueryBuildStatements(out) ==
    IF ~out.wellFormed THEN [statements |-> <<>>, err |-> AqueryParseErr]
    ELSE IF \E i \in DOMAIN out.actions : Len(out.actions[i].Command) < 1
         THEN [statements |-> <<>>, err |-> AqueryParseErr]
         ELSE [statements |-> out.actions, err |-> NoErr]

ScriptFiles == <<"main.bzl", "BUILD.bazel", "buildroot.cquery", "WORKSPACE.bazel">>

-----------------------------------------------------------------------------
(* NewBazelContext and bazelPathsFromConfig. *)

\* The settings bazelPathsFromConfig reads, in the order it reads them, and
\* the field of bazelPaths each is copied to.
RequiredEnvVars ==
    <<"BAZEL_HOME", "BAZEL_PATH", "BAZEL_OUTPUT_BASE", "BAZEL_WORKSPACE", "BAZEL_METRICS_DIR">>
PathsField ==
    <<"homeDir", "bazelPath", "outputBase", "workspaceDir", "metricsDir">>
EnvVars == Range(RequiredEnvVars) \cup {"USE_BAZEL_ANALYSIS"}

\* A bazelPaths with no field set; the model's nil *bazelPaths.
NilPaths == [f \in Range(PathsField) |-> <<>>]

\* "missing required env vars to use bazel: %s"
MissingEnvErr(missingEnvVars) == [kind |-> "missing env vars", vars |-> missingEnvVars]

\* config.Getenv: the value of the variable, "" when it is not set.
Getenv(e, name) == e[name]

RECURSIVE missingEnvVarsUpTo(_, _)
\* missingEnvVars after the first n settings were read.
missingEnvVarsUpTo(e, n) ==
    IF n = 0 THEN <<>>
    ELSE LET before == missingEnvVarsUpTo(e, n - 1)
         IN IF Len(Getenv(e, RequiredEnvVars[n])) > 1
            THEN before
            ELSE Append(before, RequiredEnvVars[n])

\* bazelPathsFromConfig: the (*bazelPaths, error) it returns.
bazelPathsFromConfig(e) ==
    LET missingEnvVars == missingEnvVarsUpTo(e, Len(RequiredEnvVars))
    IN IF Len(missingEnvVars) > 0
       THEN [paths |-> NilPaths, err |-> MissingEnvErr(missingEnvVars)]
       ELSE [paths |-> [f \in Range(PathsField) |->
                           LET i == CHOOSE j \in DOMAIN PathsField : PathsField[j] = f
                           IN Getenv(e, RequiredEnvVars[i])],
             err |-> NoErr]

-----------------------------------------------------------------------------
(* bazelContext: the request ledger. *)

\* A cquery that queues the key even when it is resolved.
cqueryRequeues(reqs, res, key) ==
    IF key \in DOMAIN res
    THEN [value |-> res[key], ok |-> TRUE, requests |-> reqs \cup {key}]
    ELSE [value |-> <<>>, ok |-> FALSE, requests |-> reqs \cup {key}]

\* A cquery that replaces the queue by the key.
cqueryForgets(reqs, res, key) ==
    IF key \in DOMAIN res
    THEN [value |-> res[key], ok |-> TRUE, requests |-> reqs]
    ELSE [value |-> <<>>, ok |-> FALSE, requests |-> {key}]

\* No goroutine holds requestMutex.
Unlocked == 0

\* A build directory in which nothing was written yet.
NoFiles == <<>>

\* No label function of package bazel was called.
NoLabels == <<>>

\* bazelContext.cquery: the returned (string, bool) and the requests map after
\* the call.
cquery(reqs, res, key) ==
    IF key \in DOMAIN res
    THEN [value |-> res[key], ok |-> TRUE, requests |-> reqs]
    ELSE [value |-> <<>>, ok |-> FALSE, requests |-> reqs \cup {key}]

\* A disabled facade whose InvokeBazel returns nil.
noopBazelContextQuiet(method) ==
    IF method \in {"GetOutputFiles", "GetCcInfo"}
    THEN [panics |-> TRUE,  value |-> <<>>, ok |-> FALSE]
    ELSE [panics |-> FALSE, value |-> <<>>, ok |-> method # "BazelEnabled"]

\* noopBazelContext: what each method does when it is called.
noopBazelContext(method) ==
    CASE method = "GetOutputFiles"            -> [panics |-> TRUE,  value |-> <<>>, ok |-> FALSE]
      [] method = "GetCcInfo"                 -> [panics |-> TRUE,  value |-> <<>>, ok |-> FALSE]
      [] method = "InvokeBazel"               -> [panics |-> TRUE,  value |-> <<>>, ok |-> FALSE]
      [] method = "OutputBase"                -> [panics |-> FALSE, value |-> <<>>, ok |-> TRUE]
      [] method = "BazelEnabled"              -> [panics |-> FALSE, value |-> <<>>, ok |-> FALSE]
      [] method = "BuildStatementsToRegister" -> [panics |-> FALSE, value |-> <<>>, ok |-> TRUE]

\* A call on the disabled facade.
NoopCall(method, key) ==
    LET r == noopBazelContext(method)
    IN /\ ctx = "noop"
       /\ ret' = IF r.panics THEN Panicked(method, key)
                 ELSE Returned(method, key, r.value, r.ok, NoErr)

\* The maps a test gives its MockBazelContext: output files and CcInfo are
\* seeded for one label, under the name the test passes.
LabelToOutputFiles == (<<"/", "/", "a">> :> <<"out", "/", "a">>)
LabelToCcInfo      == (<<"/", "/", "a">> :> <<"ccinfo", "a">>)

\* A test double that answers every label as ready.
MockBazelContextReady(method, label) ==
    CASE method = "GetOutputFiles" ->
            [panics |-> FALSE, ok |-> TRUE,
             value |-> IF label \in DOMAIN LabelToOutputFiles
                       THEN LabelToOutputFiles[label] ELSE <<>>]
      [] method = "GetCcInfo" ->
            [panics |-> FALSE, ok |-> TRUE,
             value |-> IF label \in DOMAIN LabelToCcInfo
                       THEN LabelToCcInfo[label] ELSE <<>>]
      [] method = "InvokeBazel"               -> [panics |-> TRUE,  value |-> <<>>, ok |-> FALSE]
      [] method = "OutputBase"                -> [panics |-> FALSE, value |-> <<"mock">>, ok |-> TRUE]
      [] method = "BazelEnabled"              -> [panics |-> FALSE, value |-> <<>>, ok |-> TRUE]
      [] method = "BuildStatementsToRegister" -> [panics |-> FALSE, value |-> <<>>, ok |-> TRUE]

\* MockBazelContext: what each method does when it is called; the getters
\* look the label up as it is passed and do not read the architecture.
MockBazelContext(method, label) ==
    CASE method = "GetOutputFiles" ->
            [panics |-> FALSE, ok |-> label \in DOMAIN LabelToOutputFiles,
             value |-> IF label \in DOMAIN LabelToOutputFiles
                       THEN LabelToOutputFiles[label] ELSE <<>>]
      [] method = "GetCcInfo" ->
            [panics |-> FALSE, ok |-> label \in DOMAIN LabelToCcInfo,
             value |-> IF label \in DOMAIN LabelToCcInfo
                       THEN LabelToCcInfo[label] ELSE <<>>]
      [] method = "InvokeBazel"               -> [panics |-> TRUE,  value |-> <<>>, ok |-> FALSE]
      [] method = "OutputBase"                -> [panics |-> FALSE, value |-> <<"mock">>, ok |-> TRUE]
      [] method = "BazelEnabled"              -> [panics |-> FALSE, value |-> <<>>, ok |-> TRUE]
      [] method = "BuildStatementsToRegister" -> [panics |-> FALSE, value |-> <<>>, ok |-> TRUE]

\* A call on the test double.
MockCall(method, key) ==
    LET r == MockBazelContext(method, key.label)
    IN /\ ctx = "mock"
       /\ ret' = IF r.panics THEN Panicked(method, key)
                 ELSE Returned(method, key, r.value, r.ok, NoErr)

\* A call may start when the caller is not inside InvokeBazel and the
\* process has not died of a panic.
CanCall == ipc = "idle" /\ ret.state # "panicked"

\* the error of a ParseResult of package cquery
ParseErr == [kind |-> "parse"]

\* A GetCcInfo that parses what cquery returned before it tests ok, and
\* returns the error of the parse of the empty string.
GetterParsesFirst(op, key) ==
    /\ CanCall
    /\ \/ NoopCall(op, key) /\ UNCHANGED requests
       \/ MockCall(op, key) /\ UNCHANGED requests
       \/ /\ ctx = "bazel"
          /\ LET r == cquery(requests, results, key)
             IN /\ Cardinality(r.requests) <= MaxPending
                /\ requests' = r.requests
                /\ ret' = Returned(op, key, r.value, r.ok,
                                   IF op = "GetCcInfo" /\ ~r.ok THEN ParseErr ELSE NoErr)
    /\ UNCHANGED <<ctx, results, buildStatements, issued, ipc, cqueryOutput, err,
                   buildFile, cqueryFile>>

\* A getter of the facade.  The typed parse of the raw string (package
\* cquery) is not part of the model: the value kept is the raw string that
\* cquery returned.
Getter(op, key) ==
    /\ CanCall
    /\ \/ NoopCall(op, key) /\ UNCHANGED requests
       \/ MockCall(op, key) /\ UNCHANGED requests
       \/ /\ ctx = "bazel"
          /\ LET r == cquery(requests, results, key)
             IN /\ Cardinality(r.requests) <= MaxPending
                /\ requests' = r.requests
                /\ ret' = Returned(op, key, r.value, r.ok, NoErr)
    /\ UNCHANGED <<ctx, results, buildStatements, issued, ipc, cqueryOutput, err,
                   buildFile, cqueryFile>>

GetOutputFiles(label, archType) ==
    Getter("GetOutputFiles",
           [label |-> label, requestType |-> "getOutputFiles", archType |-> archType])

GetCcInfo(label, archType) ==
    Getter("GetCcInfo",
           [label |-> label, requestType |-> "getCcInfo", archType |-> archType])

BazelEnabled ==
    /\ CanCall
    /\ \/ NoopCall("BazelEnabled", NoKey)
       \/ MockCall("BazelEnabled", NoKey)
       \/ /\ ctx = "bazel"
          /\ ret' = Returned("BazelEnabled", NoKey, <<>>, TRUE, NoErr)
    /\ UNCHANGED <<ctx, requests, results, buildStatements, issued, ipc, cqueryOutput,
                   err, buildFile, cqueryFile>>

\* The value of BAZEL_OUTPUT_BASE in the environment of the builds modelled.
outputBase == <<"out", "/", "bazel">>

OutputBase ==
    /\ CanCall
    /\ \/ NoopCall("OutputBase", NoKey)
       \/ MockCall("OutputBase", NoKey)
       \/ /\ ctx = "bazel"
          /\ ret' = Returned("OutputBase", NoKey, paths.outputBase, TRUE, NoErr)
    /\ UNCHANGED <<ctx, requests, results, buildStatements, issued, ipc, cqueryOutput,
                   err, buildFile, cqueryFile>>

BuildStatementsToRegister ==
    /\ CanCall
    /\ \/ NoopCall("BuildStatementsToRegister", NoKey)
       \/ MockCall("BuildStatementsToRegister", NoKey)
       \/ /\ ctx = "bazel"
          /\ ret' = Returned("BuildStatementsToRegister", NoKey, buildStatements,
                             TRUE, NoErr)
    /\ UNCHANGED <<ctx, requests, results, buildStatements, issued, ipc, cqueryOutput,
                   err, buildFile, cqueryFile>>

-----------------------------------------------------------------------------
(* bazelContext.InvokeBazel, in the steps at which it talks to the file    *)
(* system and to the bazelRunner.                                          *)

RECURSIVE ParseLinesFirst(_)
\* A loop over the output lines that keeps the first value of an id.
ParseLinesFirst(lines) ==
    IF lines = <<>> THEN <<>>
    ELSE LET n          == Len(lines)
             outputLine == lines[n]
             before     == ParseLinesFirst(SubSeq(lines, 1, n - 1))
         IN IF Contains(outputLine, Sep) /\ SplitN2(outputLine, Sep)[1] \notin DOMAIN before
            THEN LET splitLine == SplitN2(outputLine, Sep)
                 IN [id \in (DOMAIN before) \cup {splitLine[1]} |->
                        IF id = splitLine[1] THEN splitLine[2] ELSE before[id]]
            ELSE before

RECURSIVE ParseLines(_)
\* The map cqueryResults after the loop over these output lines.
ParseLines(lines) ==
    IF lines = <<>> THEN <<>>
    ELSE LET n          == Len(lines)
             outputLine == lines[n]
             before     == ParseLines(SubSeq(lines, 1, n - 1))
         IN IF Contains(outputLine, Sep)
            THEN LET splitLine == SplitN2(outputLine, Sep)
                 IN [id \in (DOMAIN before) \cup {splitLine[1]} |->
                        IF id = splitLine[1] THEN splitLine[2] ELSE before[id]]
            ELSE before

cqueryResultsOf(output) == ParseLines(Split(output, NL))

RECURSIVE DemuxLoopSkips(_, _, _, _)
\* A loop over requests that passes over a request without a result.
DemuxLoopSkips(order, cqueryResults, res, output) ==
    IF order = <<>> THEN [results |-> res, err |-> NoErr]
    ELSE LET val == Head(order)
             id  == getCqueryId(val)
         IN DemuxLoopSkips(Tail(order), cqueryResults,
                           IF id \in DOMAIN cqueryResults
                           THEN [k \in (DOMAIN res) \cup {val} |->
                                    IF k = val THEN cqueryResults[id] ELSE res[k]]
                           ELSE res,
                           output)

\* A loop that stores a result for every key whose id has a line, requested
\* or not.
DemuxLoopEvery(order, cqueryResults, res, output) ==
    LET r     == DemuxLoopSkips(order, cqueryResults, res, output)
        found == {k \in Keys : getCqueryId(k) \in DOMAIN cqueryResults}
    IN [results |-> [k \in (DOMAIN r.results) \cup found |->
                        IF k \in found THEN cqueryResults[getCqueryId(k)]
                        ELSE r.results[k]],
        err     |-> IF Range(order) \subseteq found THEN NoErr
                    ELSE MissingErr(<<>>, output)]

RECURSIVE DemuxLoop(_, _, _, _)
\* The loop over requests, taken in this order: the results map it leaves and
\* the error it returns with.
DemuxLoop(order, cqueryResults, res, output) ==
    IF order = <<>> THEN [results |-> res, err |-> NoErr]
    ELSE LET val == Head(order)
             id  == getCqueryId(val)
         IN IF id \in DOMAIN cqueryResults
            THEN DemuxLoop(Tail(order), cqueryResults,
                           [k \in (DOMAIN res) \cup {val} |->
                               IF k = val THEN cqueryResults[id] ELSE res[k]],
                           output)
            ELSE [results |-> res, err |-> MissingErr(id, output)]

\* An entry of the log of what was issued to the runner.
Issued(command, e) == [command |-> command, failed |-> e # NoErr]

\* InvokeBazel returns e to its caller; its locals are gone.
InvokeReturn(e) ==
    /\ ipc' = "idle"
    /\ ret' = Returned("InvokeBazel", NoKey, <<>>, e = NoErr, e)
    /\ cqueryOutput' = <<>>
    /\ err' = NoErr

\* Lines 793-831: results is replaced by an empty map and the four script
\* files are written; the first write that fails ends the call.  Of the four,
\* the content of BUILD.bazel is kept (that of buildroot.cquery is kept by
\* SynthesizeScripts, which writes the two files alone).  (The error
\* of os.Mkdir is assigned to a variable of the if statement and is lost.)
InvokeBegin ==
    /\ CanCall
    /\ \/ /\ NoopCall("InvokeBazel", NoKey) \/ MockCall("InvokeBazel", NoKey)
          /\ UNCHANGED <<results, ipc, cqueryOutput, err, buildFile>>
       \/ /\ ctx = "bazel"
          /\ results' = <<>>
          /\ \/ \E i \in DOMAIN ScriptFiles :
                   /\ InvokeReturn(WriteErr(ScriptFiles[i]))
                   /\ IF \E j \in 1..(i - 1) : ScriptFiles[j] = "BUILD.bazel"
                      THEN \E f \in BuildFiles(requests) : buildFile' = f
                      ELSE UNCHANGED buildFile
             \/ /\ \E f \in BuildFiles(requests) : buildFile' = f
                /\ ipc' = "issueCquery"
                /\ ret' = Running("InvokeBazel")
                /\ UNCHANGED <<cqueryOutput, err>>
    /\ UNCHANGED <<ctx, requests, buildStatements, cqueryFile>>

\* Lines 832-838: the cquery command.
IssueCquery ==
    /\ ipc = "issueCquery"
    /\ \E resp \in CqueryResponses :
          /\ issued' = Append(issued, Issued(cqueryCommand, resp.err))
          /\ cqueryOutput' = resp.out
          /\ err' = resp.err
    /\ ipc' = "writeCqueryOut"
    /\ UNCHANGED <<ctx, requests, results, buildStatements, ret, buildFile, cqueryFile>>

\* Lines 839-847: err is assigned the result of writing cquery.out, and only
\* then tested.  The content of cquery.out is not kept: nothing reads it.
WriteCqueryOut ==
    /\ ipc = "writeCqueryOut"
    /\ \E e \in {NoErr, WriteErr("cquery.out")} :
          IF e # NoErr
          THEN InvokeReturn(e)
          ELSE /\ ipc' = "demux"
               /\ err' = e
               /\ UNCHANGED <<ret, cqueryOutput>>
    /\ UNCHANGED <<ctx, requests, results, buildStatements, issued, buildFile, cqueryFile>>

\* Lines 849-864: the output lines are parsed and every request looked up.
\* cqueryOutput is not read after this step.
Demux ==
    /\ ipc = "demux"
    /\ \E order \in Perms(requests) :
          LET r == DemuxLoop(order, cqueryResultsOf(cqueryOutput), results, cqueryOutput)
          IN /\ results' = r.results
             /\ IF r.err # NoErr
                THEN InvokeReturn(r.err)
                ELSE /\ ipc' = "issueAquery"
                     /\ cqueryOutput' = <<>>
                     /\ UNCHANGED <<ret, err>>
    /\ UNCHANGED <<ctx, requests, buildStatements, issued, buildFile, cqueryFile>>

\* Lines 866-885: the aquery command and the parse of its output.
IssueAquery ==
    /\ ipc = "issueAquery"
    /\ \E resp \in AqueryResponses :
          /\ issued' = Append(issued, Issued(aqueryCommand, resp.err))
          /\ IF resp.err # NoErr
             THEN InvokeReturn(resp.err) /\ UNCHANGED buildStatements
             ELSE LET parsed == AqueryBuildStatements(resp.out)
                  IN /\ buildStatements' = parsed.statements
                     /\ IF parsed.err # NoErr
                        THEN InvokeReturn(parsed.err)
                        ELSE /\ ipc' = "issueBuild"
                             /\ UNCHANGED <<ret, cqueryOutput, err>>
    /\ UNCHANGED <<ctx, requests, results, buildFile, cqueryFile>>

\* The build of the phony root with requests cleared whatever its result.
IssueBuildClears ==
    /\ ipc = "issueBuild"
    /\ \E e \in {NoErr, CommandErr(buildCommand)} :
          /\ issued' = Append(issued, Issued(buildCommand, e))
          /\ InvokeReturn(e)
          /\ requests' = {}
    /\ UNCHANGED <<ctx, results, buildStatements, buildFile, cqueryFile>>

\* Lines 887-901: the build of the phony root; then requests is cleared.
IssueBuild ==
    /\ ipc = "issueBuild"
    /\ \E e \in {NoErr, CommandErr(buildCommand)} :
          /\ issued' = Append(issued, Issued(buildCommand, e))
          /\ InvokeReturn(e)
          /\ requests' = IF e # NoErr THEN requests ELSE {}
    /\ UNCHANGED <<ctx, results, buildStatements, buildFile, cqueryFile>>

-----------------------------------------------------------------------------
(* bazelSingleton.GenerateBuildActions. *)

RECURSIVE TrimSpace(_)
\* strings.TrimSpace, for the white space the model has: " " and "\n".
TrimSpace(s) ==
    IF s = <<>> THEN s
    ELSE IF Head(s) \in {" ", "\n"} THEN TrimSpace(Tail(s))
    ELSE IF s[Len(s)] \in {" ", "\n"} THEN TrimSpace(SubSeq(s, 1, Len(s) - 1))
    ELSE s

\* PathForBazelOut(ctx, path): a path under the bazel output tree.
PathForBazelOut(path) == [bazelOut |-> path]

\* The path of bazel.list, next to the module list file.
bazelBuildList == <<"bazel.list">>

\* What ioutil.ReadFile(bazelBuildList) may return.
ReadErr == [kind |-> "read", path |-> bazelBuildList]
BazelListReads ==
    {[data |-> <<>>, err |-> ReadErr],
     [data |-> <<"Android.bp", "\n">>, err |-> NoErr],
     [data |-> <<"Android.bp", "\n", "a", "/", "Android.bp", "\n">>, err |-> NoErr]}

\* A BazelEnabled() that says true on every BazelContext.
ContextBazelEnabledAlways == TRUE

\* What the BazelContext of the config answers to the calls of the singleton.
ContextBazelEnabled ==
    CASE ctx = "noop" -> noopBazelContext("BazelEnabled").ok
      [] ctx = "mock" -> MockBazelContext("BazelEnabled", <<>>).ok
      [] OTHER        -> TRUE
ContextBuildStatements ==
    CASE ctx = "noop" -> <<>>
      [] ctx = "mock" -> <<>>
      [] OTHER        -> buildStatements
ContextOutputBase ==
    CASE ctx = "noop" -> noopBazelContext("OutputBase").value
      [] ctx = "mock" -> MockBazelContext("OutputBase", <<>>).value
      [] OTHER        -> paths.outputBase

\* The rule the loop body builds for the statement at this index: the calls
\* it makes on the RuleBuilder and its command.
RuleOf(index, buildStatement, base) ==
    [text            |-> <<"cd">> \o base \o <<"/", "execroot", "/", "__main__", "&&">>
                             \o buildStatement.Command,
     implicitOutputs |-> [i \in DOMAIN buildStatement.OutputPaths |->
                             PathForBazelOut(buildStatement.OutputPaths[i])],
     implicits       |-> [i \in DOMAIN buildStatement.InputPaths |->
                             PathForBazelOut(buildStatement.InputPaths[i])],
     depFiles        |-> [i \in DOMAIN buildStatement.Depfile |->
                             PathForBazelOut(buildStatement.Depfile[i])],
     restat          |-> TRUE,
     name            |-> <<"bazel", index>>,
     desc            |-> buildStatement.Mnemonic]

RECURSIVE RegisterFromUnchecked(_, _, _)
\* A loop that builds a rule for every statement, whatever its command.
RegisterFromUnchecked(stmts, i, built) ==
    IF i > Len(stmts) THEN [rules |-> built, panicked |-> FALSE]
    ELSE RegisterFromUnchecked(stmts, i + 1,
                               Append(built, RuleOf(i - 1, stmts[i], ContextOutputBase)))

RECURSIVE RegisterFromLast(_, _, _)
\* A loop that keeps only the rule of the last statement.
RegisterFromLast(stmts, i, built) ==
    IF i > Len(stmts) THEN [rules |-> built, panicked |-> FALSE]
    ELSE IF Len(stmts[i].Command) < 1
         THEN [rules |-> built, panicked |-> TRUE]
         ELSE RegisterFromLast(stmts, i + 1, <<RuleOf(i - 1, stmts[i], ContextOutputBase)>>)

RECURSIVE RegisterFrom(_, _, _)
\* The loop over the statements from position i on, with these rules built
\* so far: the rules built when it ends, and whether it ended in the panic.
RegisterFrom(stmts, i, built) ==
    IF i > Len(stmts) THEN [rules |-> built, panicked |-> FALSE]
    ELSE IF Len(stmts[i].Command) < 1
         THEN [rules |-> built, panicked |-> TRUE]
         ELSE RegisterFrom(stmts, i + 1,
                           Append(built, RuleOf(i - 1, stmts[i], ContextOutputBase)))

\* bazelSingleton.GenerateBuildActions, which an analysis pass runs once.
\* Depfile is a pointer: a sequence of no path or of one path.
GenerateBuildActions ==
    /\ CanCall
    /\ rules = <<>>
    /\ ninjaFileDeps = <<>>
    /\ IF ~ContextBazelEnabled
       THEN /\ ret' = Returned("GenerateBuildActions", NoKey, <<>>, TRUE, NoErr)
            /\ UNCHANGED <<rules, ninjaFileDeps>>
       ELSE \E read \in BazelListReads :
               LET files == Split(TrimSpace(read.data), NL)
                   r     == RegisterFrom(ContextBuildStatements, 1, <<>>)
               IN /\ ninjaFileDeps' = <<bazelBuildList>> \o files
                  /\ rules' = r.rules
                  /\ ret' = IF r.panicked
                            THEN Panicked("GenerateBuildActions", NoKey)
                            ELSE Returned("GenerateBuildActions", NoKey, <<>>,
                                          read.err = NoErr, read.err)
    /\ UNCHANGED <<ctx, requests, results, buildStatements, issued, ipc, cqueryOutput,
                   err, buildFile, cqueryFile>>

-----------------------------------------------------------------------------
(* Callers. *)

NoCall == Returned("none", NoKey, <<>>, FALSE, NoErr)

\* Any method of the BazelContext interface other than InvokeBazel.
Call ==
    \/ \E key \in Keys :
          key.requestType = "getOutputFiles" /\ GetOutputFiles(key.label, key.archType)
    \/ \E key \in Keys :
          key.requestType = "getCcInfo" /\ GetCcInfo(key.label, key.archType)
    \/ BazelEnabled
    \/ OutputBase
    \/ BuildStatementsToRegister

\* A step of a running InvokeBazel.
InvokeStep ==
    \/ IssueCquery
    \/ WriteCqueryOut
    \/ Demux
    \/ IssueAquery
    \/ IssueBuild

\* An environment with every setting of a mixed build.
BuildEnv ==
    [name \in EnvVars |->
        CASE name = "USE_BAZEL_ANALYSIS" -> <<"1">>
          [] name = "BAZEL_OUTPUT_BASE"  -> outputBase
          [] OTHER                       -> <<"/", name>>]

\* NewBazelContext leaves a noopBazelContext, or a bazelContext with an empty
\* requests map and a nil results map; a test may set up a MockBazelContext.
InitContext ==
    /\ ctx \in {"bazel", "noop", "mock"}
    /\ env = BuildEnv
    /\ paths = IF ctx = "bazel" THEN bazelPathsFromConfig(env).paths ELSE NilPaths
    /\ requests = {}
    /\ results = <<>>
    /\ buildStatements = <<>>
    /\ issued = <<>>
    /\ ret = NoCall
    /\ ipc = "idle"
    /\ cqueryOutput = <<>>
    /\ err = NoErr
    /\ buildFile = NoBuildFile
    /\ cqueryFile = NoCqueryFile
    /\ rules = <<>>
    /\ ninjaFileDeps = <<>>
    /\ threads = <<>>
    /\ requestMutex = Unlocked
    /\ prior = <<>>
    /\ fs = NoFiles
    /\ labelLists = NoLabels
    /\ consumed = {}

\* A test that uses the context freely, one call after the other, and gives
\* it a new recording runner for each InvokeBazel.
Init == InitContext /\ pc = "test"

TestInvokeBazel == InvokeBegin /\ issued' = <<>>

Next ==
    /\ pc = "test"
    /\ (Call \/ TestInvokeBazel \/ InvokeStep)
    /\ UNCHANGED <<pc, env, fs, labelLists, prior, consumed, threads, requestMutex, paths, rules,
                   ninjaFileDeps>>

Spec == Init /\ [][Next]_vars

\* The keys the callers of one process ask for, cycle after cycle.
CycleKeys == {BaseKey, [BaseKey EXCEPT !.archType = X86_64]}

\* A process that calls InvokeBazel any number of times on one bazelContext,
\* with getter calls in between.
InitCycles == InitContext /\ ctx = "bazel" /\ pc = "cycles"

CycleCall ==
    /\ \E key \in CycleKeys : GetOutputFiles(key.label, key.archType)
    /\ UNCHANGED <<prior, consumed>>

CycleInvokeBazel ==
    /\ InvokeBegin
    /\ issued' = <<>>
    /\ prior' = results
    /\ UNCHANGED consumed

CycleInvokeStep ==
    /\ InvokeStep
    /\ consumed' = IF ipc = "issueCquery" THEN consumed \cup requests ELSE consumed
    /\ UNCHANGED prior

NextCycles ==
    /\ pc = "cycles"
    /\ (CycleCall \/ CycleInvokeBazel \/ CycleInvokeStep)
    /\ UNCHANGED <<pc, env, fs, labelLists, threads, requestMutex, paths, rules, ninjaFileDeps>>

SpecCycles == InitCycles /\ [][NextCycles]_vars

\* runMixedModeBuild, which doChosenActivity calls when BazelEnabled() holds.
InitRun == InitContext /\ ctx = "bazel" /\ pc = "firstPass"

\* bootstrap.Main on firstCtx: the modules and singletons call the facade.
FirstPass ==
    /\ pc = "firstPass"
    /\ \/ Call /\ UNCHANGED <<rules, ninjaFileDeps>>
       \/ GenerateBuildActions
    /\ UNCHANGED <<pc, env, fs, labelLists, prior, consumed, threads, requestMutex, paths>>

\* configuration.BazelContext.InvokeBazel()
RunInvokeBazel ==
    /\ pc = "firstPass"
    /\ InvokeBegin
    /\ pc' = "invoke"
    /\ UNCHANGED <<issued, env, fs, labelLists, prior, consumed, threads, requestMutex, paths, rules,
                   ninjaFileDeps>>

RunInvokeStep ==
    /\ pc = "invoke"
    /\ InvokeStep
    /\ UNCHANGED <<pc, env, fs, labelLists, prior, consumed, threads, requestMutex, paths, rules,
                   ninjaFileDeps>>

\* A driver that goes back to the first pass after InvokeBazel.
RunAfterInvokeAgain ==
    /\ pc = "invoke"
    /\ ipc = "idle"
    /\ ret.state = "returned"
    /\ pc' = IF ret.err # NoErr THEN "exit1" ELSE "firstPass"
    /\ UNCHANGED <<ctx, requests, results, buildStatements, issued, ret, ipc,
                   cqueryOutput, err, buildFile, cqueryFile, env, fs, labelLists, prior, consumed, threads,
                   requestMutex, paths, rules, ninjaFileDeps>>

\* A driver that starts the second pass whatever InvokeBazel returned.
RunAfterInvokeHeedless ==
    /\ pc = "invoke"
    /\ ipc = "idle"
    /\ ret.state = "returned"
    /\ pc' = "secondPass"
    /\ rules' = <<>>
    /\ ninjaFileDeps' = <<>>
    /\ UNCHANGED <<ctx, requests, results, buildStatements, issued, ret, ipc,
                   cqueryOutput, err, buildFile, cqueryFile, env, fs, labelLists, prior, consumed, threads,
                   requestMutex, paths>>

\* An error of InvokeBazel or of ConfigForAdditionalRun ends the process with
\* os.Exit(1); otherwise the second pass starts, on the same BazelContext and
\* in a new analysis context (newContext), which has no rule yet.
RunAfterInvoke ==
    /\ pc = "invoke"
    /\ ipc = "idle"
    /\ ret.state = "returned"
    /\ IF ret.err # NoErr
       THEN pc' = "exit1" /\ UNCHANGED <<rules, ninjaFileDeps>>
       ELSE \E configErr \in BOOLEAN :
               IF configErr
               THEN pc' = "exit1" /\ UNCHANGED <<rules, ninjaFileDeps>>
               ELSE pc' = "secondPass" /\ rules' = <<>> /\ ninjaFileDeps' = <<>>
    /\ UNCHANGED <<ctx, requests, results, buildStatements, issued, ret, ipc,
                   cqueryOutput, err, buildFile, cqueryFile, env, fs, labelLists, prior, consumed, threads,
                   requestMutex, paths>>

\* bootstrap.Main on secondCtx
SecondPass ==
    /\ pc = "secondPass"
    /\ \/ Call /\ UNCHANGED <<rules, ninjaFileDeps>>
       \/ GenerateBuildActions
    /\ UNCHANGED <<pc, env, fs, labelLists, prior, consumed, threads, requestMutex, paths>>

RunReturn ==
    /\ pc = "secondPass"
    /\ CanCall
    /\ pc' = "done"
    /\ UNCHANGED <<ctx, requests, results, buildStatements, issued, ret, ipc,
                   cqueryOutput, err, buildFile, cqueryFile, env, fs, labelLists, prior, consumed, threads,
                   requestMutex, paths, rules, ninjaFileDeps>>

runMixedModeBuild ==
    \/ FirstPass
    \/ RunInvokeBazel
    \/ RunInvokeStep
    \/ RunAfterInvoke
    \/ SecondPass
    \/ RunReturn

SpecRun == InitRun /\ [][runMixedModeBuild]_vars

\* Build statements a BazelContext may hand to the singleton: with and without
\* a depfile, and one with an empty command.
StmtDep == [Mnemonic |-> "CppLink", Command |-> <<"ld", "-o", "b">>,
            OutputPaths |-> <<"b", "b.map">>, InputPaths |-> <<"a.o", "c.o">>,
            Depfile |-> <<"b.d">>]
StmtEmpty == [Mnemonic |-> "Unknown", Command |-> <<>>,
              OutputPaths |-> <<"u">>, InputPaths |-> <<>>, Depfile |-> <<>>]
Statements == {Stmt1, StmtDep, StmtEmpty}
StatementLists == UNION {[1..n -> Statements] : n \in 0..MaxStatements}

\* An analysis pass about to run the bazelSingleton, on a BazelContext that
\* holds these build statements.
InitSplice ==
    /\ ctx \in {"bazel", "noop", "mock"}
    /\ env = BuildEnv
    /\ paths = IF ctx = "bazel" THEN bazelPathsFromConfig(env).paths ELSE NilPaths
    /\ requests = {}
    /\ results = <<>>
    /\ buildStatements \in IF ctx = "bazel" THEN StatementLists ELSE {<<>>}
    /\ issued = <<>>
    /\ ret = NoCall
    /\ ipc = "idle"
    /\ cqueryOutput = <<>>
    /\ err = NoErr
    /\ buildFile = NoBuildFile
    /\ cqueryFile = NoCqueryFile
    /\ rules = <<>>
    /\ ninjaFileDeps = <<>>
    /\ threads = <<>>
    /\ requestMutex = Unlocked
    /\ prior = <<>>
    /\ fs = NoFiles
    /\ labelLists = NoLabels
    /\ consumed = {}
    /\ pc = "splice"

Splice ==
    /\ pc = "splice"
    /\ GenerateBuildActions
    /\ pc' = "spliced"
    /\ UNCHANGED <<env, fs, labelLists, prior, consumed, threads, requestMutex, paths>>

SpecSplice == InitSplice /\ [][Splice]_vars

\* The goroutines of an analysis pass that call cquery, one call each.
Workers == 1..MaxWorkers

\* The lookup in context.results, which is made without the mutex: a hit
\* returns, a miss goes on to requestMutex.Lock().
CqueryLookup(w) ==
    /\ threads[w].at = "call"
    /\ threads' = [threads EXCEPT ![w].at =
                      IF threads[w].key \in DOMAIN results THEN "returned" ELSE "lock"]
    /\ UNCHANGED <<requests, requestMutex>>

\* A Lock() that does not wait for the holder.
CqueryLockBarging(w) ==
    /\ threads[w].at = "lock"
    /\ requestMutex' = w
    /\ threads' = [threads EXCEPT ![w].at = "insert"]
    /\ UNCHANGED requests

\* context.requestMutex.Lock()
CqueryLock(w) ==
    /\ threads[w].at = "lock"
    /\ requestMutex = Unlocked
    /\ requestMutex' = w
    /\ threads' = [threads EXCEPT ![w].at = "insert"]
    /\ UNCHANGED requests

\* context.requests[key] = true, which is not atomic: the goroutine reads the
\* map ...
CqueryInsertRead(w) ==
    /\ threads[w].at = "insert"
    /\ threads' = [threads EXCEPT ![w].at = "store", ![w].seen = requests]
    /\ UNCHANGED <<requests, requestMutex>>

\* ... and writes it back with the key added.
CqueryInsertWrite(w) ==
    /\ threads[w].at = "store"
    /\ requests' = threads[w].seen \cup {threads[w].key}
    /\ threads' = [threads EXCEPT ![w].at = "unlock"]
    /\ UNCHANGED requestMutex

\* A return of ("", false) without the deferred Unlock().
CqueryUnlockNever(w) ==
    /\ threads[w].at = "unlock"
    /\ threads' = [threads EXCEPT ![w].at = "returned"]
    /\ UNCHANGED <<requests, requestMutex>>

\* The deferred context.requestMutex.Unlock(), and the return of ("", false).
CqueryUnlock(w) ==
    /\ threads[w].at = "unlock"
    /\ requestMutex' = Unlocked
    /\ threads' = [threads EXCEPT ![w].at = "returned"]
    /\ UNCHANGED requests

\* An analysis pass in which every goroutine is about to call cquery, on a
\* bazelContext with nothing pending, while no InvokeBazel runs.
InitWorkers ==
    /\ ctx = "bazel"
    /\ env = BuildEnv
    /\ paths = bazelPathsFromConfig(env).paths
    /\ requests = {}
    /\ results \in {<<>>, (BaseKey :> <<"out", "/", "a">>)}
    /\ buildStatements = <<>>
    /\ issued = <<>>
    /\ ret = NoCall
    /\ ipc = "idle"
    /\ cqueryOutput = <<>>
    /\ err = NoErr
    /\ buildFile = NoBuildFile
    /\ cqueryFile = NoCqueryFile
    /\ rules = <<>>
    /\ ninjaFileDeps = <<>>
    /\ threads \in [Workers -> [at : {"call"}, key : Keys, seen : {{}}]]
    /\ requestMutex = Unlocked
    /\ prior = <<>>
    /\ fs = NoFiles
    /\ labelLists = NoLabels
    /\ consumed = {}
    /\ pc = "workers"

WorkerStep ==
    /\ pc = "workers"
    /\ \E w \in Workers :
          \/ CqueryLookup(w)
          \/ CqueryLock(w)
          \/ CqueryInsertRead(w)
          \/ CqueryInsertWrite(w)
          \/ CqueryUnlock(w)
    /\ UNCHANGED <<ctx, results, buildStatements, issued, ret, pc, ipc, cqueryOutput,
                   err, buildFile, cqueryFile, env, fs, labelLists, prior, consumed, paths, rules, ninjaFileDeps>>

SpecWorkers == InitWorkers /\ [][WorkerStep]_vars

\* The analysis pass under a scheduler that lets every goroutine that can
\* take a step take one in the end: a goroutine that is not blocked runs,
\* and one that waits in Lock() runs once the mutex stays free.
SpecWorkersFair ==
    /\ SpecWorkers
    /\ \A w \in Workers : WF_vars(WorkerStep /\ threads'[w] # threads[w])

\* A bazelContext with some requests queued, at the point of InvokeBazel
\* where BUILD.bazel and buildroot.cquery are written.
InitScripts ==
    /\ ctx = "bazel"
    /\ env = BuildEnv
    /\ paths = bazelPathsFromConfig(env).paths
    /\ requests \in {reqs \in SUBSET Keys : Cardinality(reqs) <= MaxRequests}
    /\ results = <<>>
    /\ buildStatements = <<>>
    /\ issued = <<>>
    /\ ret = Running("InvokeBazel")
    /\ ipc = "idle"
    /\ cqueryOutput = <<>>
    /\ err = NoErr
    /\ buildFile = NoBuildFile
    /\ cqueryFile = NoCqueryFile
    /\ rules = <<>>
    /\ ninjaFileDeps = <<>>
    /\ threads = <<>>
    /\ requestMutex = Unlocked
    /\ prior = <<>>
    /\ fs = NoFiles
    /\ labelLists = NoLabels
    /\ consumed = {}
    /\ pc = "scripts"

\* Lines 813-826: the two script files that are made from requests.
SynthesizeScripts ==
    /\ pc = "scripts"
    /\ \E f \in BuildFiles(requests) : buildFile' = f
    /\ \E f \in CqueryFiles(requests) : cqueryFile' = f
    /\ pc' = "written"
    /\ UNCHANGED <<ctx, requests, results, buildStatements, issued, ret, ipc,
                   cqueryOutput, err, env, fs, labelLists, paths, rules, ninjaFileDeps, threads,
                   requestMutex, prior, consumed>>

SpecScripts == InitScripts /\ [][SynthesizeScripts]_vars

\* Values of a setting: not set, one character, two characters.
EnvValues == {<<>>, <<".">>, <<"/", "b">>}

\* The environments a build may be configured from.
Envs ==
    {e \in [EnvVars -> EnvValues \cup {<<"1">>}] :
        /\ e["USE_BAZEL_ANALYSIS"] \in {<<>>, <<"1">>}
        /\ \A i \in DOMAIN RequiredEnvVars : e[RequiredEnvVars[i]] \in EnvValues}

\* Before NewBazelContext: the config has no BazelContext yet.
InitConfig ==
    /\ env \in Envs
    /\ ctx = "none"
    /\ paths = NilPaths
    /\ pc = "newConfig"
    /\ requests = {}
    /\ results = <<>>
    /\ buildStatements = <<>>
    /\ issued = <<>>
    /\ ret = NoCall
    /\ ipc = "idle"
    /\ cqueryOutput = <<>>
    /\ err = NoErr
    /\ buildFile = NoBuildFile
    /\ cqueryFile = NoCqueryFile
    /\ rules = <<>>
    /\ ninjaFileDeps = <<>>
    /\ threads = <<>>
    /\ requestMutex = Unlocked
    /\ prior = <<>>
    /\ fs = NoFiles
    /\ labelLists = NoLabels
    /\ consumed = {}

\* NewBazelContext: a noopBazelContext unless USE_BAZEL_ANALYSIS is "1";
\* otherwise a bazelContext with the paths of the environment, or the error
\* of bazelPathsFromConfig.
NewBazelContext ==
    /\ pc = "newConfig"
    /\ pc' = "configured"
    /\ IF Getenv(env, "USE_BAZEL_ANALYSIS") # <<"1">>
       THEN /\ ctx' = "noop"
            /\ paths' = NilPaths
            /\ ret' = Returned("NewBazelContext", NoKey, <<>>, TRUE, NoErr)
       ELSE LET r == bazelPathsFromConfig(env)
            IN /\ ctx' = IF r.err # NoErr THEN "none" ELSE "bazel"
               /\ paths' = r.paths
               /\ ret' = Returned("NewBazelContext", NoKey, <<>>, r.err = NoErr, r.err)
    /\ UNCHANGED <<requests, results, buildStatements, issued, ipc, cqueryOutput, err,
                   buildFile, cqueryFile, env, fs, labelLists, prior, consumed, threads, requestMutex, rules,
                   ninjaFileDeps>>

SpecConfig == InitConfig /\ [][NewBazelContext]_vars

-----------------------------------------------------------------------------
(* builtinBazelRunner.issueBazelCommand, and the calls InvokeBazel makes. *)

\* config.buildDir, and bazelPaths.intermediatesDir(): filepath.Join(p.buildDir, "bazel")
buildDir == <<"out", "/", "soong">>
intermediatesDir == buildDir \o <<"/", "bazel">>

\* The run names of package bazel.
CqueryBuildRootRunName     == "cquery-buildroot"
AqueryBuildRootRunName     == "aquery-buildroot"
BazelBuildPhonyRootRunName == "bazel-build-phonyroot"

\* shared.BazelMetricsFilename(paths, runName): a file of the metrics
\* directory named after the run.
BazelMetricsFilename(p, runName) ==
    p.metricsDir \o <<"/", runName, "_bazel_profile.gz">>

\* A flag list with the flags of the caller before the flags of the runner.
cmdFlagsExtraFirst(p, runName, command, extraFlags) ==
    extraFlags \o
    << <<"--output_base=">> \o p.outputBase,
       <<command.command>>,
       <<command.expression>>,
       <<"--package_path=%workspace%/">> \o intermediatesDir,
       <<"--profile=">> \o BazelMetricsFilename(p, runName),
       <<"--platforms=">> \o canonicalizeLabel(<<"/", "/", "build/bazel/platforms:android_x86_64">>),
       <<"--extra_toolchains=">> \o canonicalizeLabel(<<"/", "/", "prebuilts/clang/host/linux-x86:all">>),
       <<"--host_platform=">> \o canonicalizeLabel(<<"/", "/", "build/bazel/platforms:linux_x86_64">>),
       <<"--experimental_repository_disable_download">> >>

\* Lines 512-532: the arguments of the bazel process.
cmdFlags(p, runName, command, extraFlags) ==
    << <<"--output_base=">> \o p.outputBase,
       <<command.command>>,
       <<command.expression>>,
       <<"--package_path=%workspace%/">> \o intermediatesDir,
       <<"--profile=">> \o BazelMetricsFilename(p, runName),
       <<"--platforms=">> \o canonicalizeLabel(<<"/", "/", "build/bazel/platforms:android_x86_64">>),
       <<"--extra_toolchains=">> \o canonicalizeLabel(<<"/", "/", "prebuilts/clang/host/linux-x86:all">>),
       <<"--host_platform=">> \o canonicalizeLabel(<<"/", "/", "build/bazel/platforms:linux_x86_64">>),
       <<"--experimental_repository_disable_download">> >>
    \o extraFlags

\* filepath.Join(context.paths.intermediatesDir(), "buildroot.cquery")
cqueryFileRelpath == intermediatesDir \o <<"/", "buildroot.cquery">>

\* The three calls of issueBazelCommand in InvokeBazel (833-838, 870-876,
\* 890-893), in the order of the code.
InvokeBazelCalls ==
    << [runName    |-> CqueryBuildRootRunName,
        command    |-> cqueryCommand,
        extraFlags |-> << <<"--output=starlark">>,
                          <<"--starlark:file=">> \o cqueryFileRelpath >>],
       [runName    |-> AqueryBuildRootRunName,
        command    |-> aqueryCommand,
        extraFlags |-> << <<"--output=jsonproto">> >>],
       [runName    |-> BazelBuildPhonyRootRunName,
        command    |-> buildCommand,
        extraFlags |-> <<>>] >>

\* The values a path setting has in the runs modelled.
PathValues == {<<"/", "b">>, <<"o", "/", "b">>}

\* One InvokeBazel on a bazelContext whose runner is the builtinBazelRunner:
\* nothing has been issued yet.
InitRunner ==
    /\ ctx = "bazel"
    /\ env = BuildEnv
    /\ paths \in [Range(PathsField) -> PathValues]
    /\ requests = {}
    /\ results = <<>>
    /\ buildStatements = <<>>
    /\ issued = <<>>
    /\ ret = Running("InvokeBazel")
    /\ ipc = "idle"
    /\ cqueryOutput = <<>>
    /\ err = NoErr
    /\ buildFile = NoBuildFile
    /\ cqueryFile = NoCqueryFile
    /\ rules = <<>>
    /\ ninjaFileDeps = <<>>
    /\ threads = <<>>
    /\ requestMutex = Unlocked
    /\ prior = <<>>
    /\ fs = NoFiles
    /\ labelLists = NoLabels
    /\ consumed = {}
    /\ pc = "runner"

\* The next call of InvokeBazel to builtinBazelRunner.issueBazelCommand: the
\* process it starts (exec.Command(paths.bazelPath, cmdFlags...), Dir and
\* HOME) and whether the process failed.  InvokeBazel may return after any
\* of its calls.
issueBazelCommand ==
    /\ pc = "runner"
    /\ Len(issued) < Len(InvokeBazelCalls)
    /\ LET call == InvokeBazelCalls[Len(issued) + 1]
       IN \E failed \in BOOLEAN, returns \in BOOLEAN :
             /\ issued' = Append(issued,
                    [runName    |-> call.runName,
                     command    |-> call.command,
                     extraFlags |-> call.extraFlags,
                     path       |-> paths.bazelPath,
                     cmdFlags   |-> cmdFlags(paths, call.runName, call.command,
                                             call.extraFlags),
                     dir        |-> paths.workspaceDir,
                     home       |-> <<"HOME=">> \o paths.homeDir,
                     failed     |-> failed])
             /\ pc' = IF returns \/ Len(issued) + 1 = Len(InvokeBazelCalls)
                      THEN "ran" ELSE "runner"
    /\ UNCHANGED <<ctx, requests, results, buildStatements, ret, ipc, cqueryOutput, err,
                   buildFile, cqueryFile, env, fs, labelLists, paths, rules, ninjaFileDeps, threads,
                   requestMutex, prior, consumed>>

SpecRunner == InitRunner /\ [][issueBazelCommand]_vars

-----------------------------------------------------------------------------
(* writeFakeNinjaFile (cmd/soong_build/main.go). *)

\* The directory soong_build runs in.
topDir == <<"/", "src">>

\* shared.JoinPath of path elements none of which is absolute.
JoinPath(elems) == Join(elems, <<"/">>)

\* The file build.ninja of the build directory, and the file build.ninja.d
\* next to it.
ninjaFileName == <<"build.ninja">>
BuildNinja  == JoinPath(<<topDir, buildDir, ninjaFileName>>)
BuildNinjaD == JoinPath(<<topDir, buildDir, ninjaFileName \o <<".d">> >>)

\* "build nothing: phony\n  phony_output = true\n"
NothingPhony == <<"build nothing: phony", "\n", "  phony_output = true", "\n">>

\* fmt.Sprintf("%s: \\\n %s\n", ninjaFileName, extraNinjaDepsString)
DepsFileContents(extraNinjaDeps) ==
    LET extraNinjaDepsString == Join(extraNinjaDeps, <<" ", "\\", "\n", " ">>)
    IN ninjaFileName \o <<":", " ", "\\", "\n", " ">> \o extraNinjaDepsString \o <<"\n">>

\* ioutil.WriteFile: the file has the data, whatever it had before.
WriteFile(files, filename, data) ==
    [f \in (DOMAIN files) \cup {filename} |-> IF f = filename THEN data ELSE files[f]]

\* A writeFakeNinjaFile whose second file is build.ninja.d.
writeFakeNinjaFileTwoNames(files, extraNinjaDeps) ==
    LET ninjaFile  == BuildNinja
        ninjaFileD == BuildNinjaD
    IN WriteFile(WriteFile(files, ninjaFile, NothingPhony),
                 ninjaFileD, DepsFileContents(extraNinjaDeps))

\* Lines 262-275: the files of the build directory after the two writes.
\* ninjaFileD is joined from the same three elements as ninjaFile.
writeFakeNinjaFile(files, extraNinjaDeps) ==
    LET ninjaFile  == JoinPath(<<topDir, buildDir, ninjaFileName>>)
        ninjaFileD == JoinPath(<<topDir, buildDir, ninjaFileName>>)
    IN WriteFile(WriteFile(files, ninjaFile, NothingPhony),
                 ninjaFileD, DepsFileContents(extraNinjaDeps))

\* The extra ninja deps of a run: up to MaxDeps file names.
DepNames == {<<"soong.variables">>, <<"soong.environment.used">>, <<"Android.bp">>}
DepLists == UNION {[1..n -> DepNames] : n \in 0..MaxDeps}

\* What an earlier run of soong_build has left in the build directory:
\* nothing (a clean checkout), or build.ninja and build.ninja.d.
PriorFiles ==
    {NoFiles,
     WriteFile(WriteFile(NoFiles, BuildNinja, <<"rule", "\n">>),
               BuildNinjaD, DepsFileContents(<<>>))}

\* runBp2Build or writeJsonModuleGraph is about to call writeFakeNinjaFile
\* with these extra ninja deps.
InitFakeNinja ==
    /\ ctx = "noop"
    /\ env = BuildEnv
    /\ paths = NilPaths
    /\ requests = {}
    /\ results = <<>>
    /\ buildStatements = <<>>
    /\ issued = <<>>
    /\ ret = NoCall
    /\ ipc = "idle"
    /\ cqueryOutput = <<>>
    /\ err = NoErr
    /\ buildFile = NoBuildFile
    /\ cqueryFile = NoCqueryFile
    /\ rules = <<>>
    /\ ninjaFileDeps \in DepLists
    /\ threads = <<>>
    /\ requestMutex = Unlocked
    /\ prior = <<>>
    /\ fs \in PriorFiles
    /\ labelLists = NoLabels
    /\ consumed = {}
    /\ pc = "writeFakeNinjaFile"

\* The call writeFakeNinjaFile(extraNinjaDeps, buildDir); the results of the
\* two ioutil.WriteFile calls are not looked at.
WriteFakeNinjaFile ==
    /\ pc = "writeFakeNinjaFile"
    /\ fs' = writeFakeNinjaFile(fs, ninjaFileDeps)
    /\ pc' = "fakeNinjaWritten"
    /\ UNCHANGED <<ctx, requests, results, buildStatements, issued, ret, ipc, cqueryOutput,
                   err, buildFile, cqueryFile, env, labelLists, paths, rules, ninjaFileDeps, threads,
                   requestMutex, prior, consumed>>

SpecFakeNinja == InitFakeNinja /\ [][WriteFakeNinjaFile]_vars

-----------------------------------------------------------------------------
(* main and doChosenActivity (cmd/soong_build/main.go). *)

\* config.IsEnvTrue: the setting has one of the values that mean true.
IsEnvTrue(e, key) == Getenv(e, key) \in {<<"1">>, <<"y">>, <<"yes">>, <<"on">>, <<"true">>}

\* The environments of the runs of soong_build modelled: every path setting
\* set, USE_BAZEL_ANALYSIS "1" or not set, GENERATE_BAZEL_FILES "true" or not
\* set.
ActivityEnvs ==
    {[name \in EnvVars \cup {"GENERATE_BAZEL_FILES"} |->
         CASE name = "USE_BAZEL_ANALYSIS"   -> use
           [] name = "GENERATE_BAZEL_FILES" -> generate
           [] OTHER                         -> BuildEnv[name]] :
     use \in {<<>>, <<"1">>}, generate \in {<<>>, <<"true">>}}

\* main, before newConfig, in a clean build directory.
InitActivity ==
    /\ env \in ActivityEnvs
    /\ ctx = "none"
    /\ paths = NilPaths
    /\ pc = "newConfig"
    /\ requests = {}
    /\ results = <<>>
    /\ buildStatements = <<>>
    /\ issued = <<>>
    /\ ret = NoCall
    /\ ipc = "idle"
    /\ cqueryOutput = <<>>
    /\ err = NoErr
    /\ buildFile = NoBuildFile
    /\ cqueryFile = NoCqueryFile
    /\ rules = <<>>
    /\ ninjaFileDeps = <<>>
    /\ threads = <<>>
    /\ requestMutex = Unlocked
    /\ prior = <<>>
    /\ fs = NoFiles
    /\ labelLists = NoLabels
    /\ consumed = {}

\* A doChosenActivity that looks at mixedModeBuild before it looks at
\* bazelConversionRequested.
DoChosenActivityMixedFirst ==
    /\ pc = "configured"
    /\ ctx # "none"
    /\ BazelEnabled
    /\ LET bazelConversionRequested == IsEnvTrue(env, "GENERATE_BAZEL_FILES")
           mixedModeBuild           == ContextBazelEnabled
       IN pc' = IF mixedModeBuild THEN "firstPass"
                ELSE IF bazelConversionRequested THEN "runBp2Build"
                ELSE "main"
    /\ UNCHANGED <<env, fs, labelLists, paths, rules, ninjaFileDeps, threads, requestMutex, prior,
                   consumed>>

\* Lines 150-168: doChosenActivity reads GENERATE_BAZEL_FILES, calls
\* BazelEnabled() and chooses runBp2Build, runMixedModeBuild or one
\* bootstrap.Main.
DoChosenActivity ==
    /\ pc = "configured"
    /\ ctx # "none"
    /\ BazelEnabled
    /\ LET bazelConversionRequested == IsEnvTrue(env, "GENERATE_BAZEL_FILES")
           mixedModeBuild           == ContextBazelEnabled
       IN pc' = IF bazelConversionRequested THEN "runBp2Build"
                ELSE IF mixedModeBuild THEN "firstPass"
                ELSE "main"
    /\ UNCHANGED <<env, fs, labelLists, paths, rules, ninjaFileDeps, threads, requestMutex, prior,
                   consumed>>

\* runBp2Build (280-319): the analysis of the bp2build context and the code
\* generation, which make no call on the BazelContext, and then
\* writeFakeNinjaFile; doChosenActivity returns after it.
RunBp2Build ==
    /\ pc = "runBp2Build"
    /\ \E extraNinjaDeps \in DepLists : fs' = writeFakeNinjaFile(fs, extraNinjaDeps)
    /\ pc' = "returned"
    /\ UNCHANGED <<ctx, requests, results, buildStatements, issued, ret, ipc, cqueryOutput,
                   err, buildFile, cqueryFile, env, labelLists, paths, rules, ninjaFileDeps, threads,
                   requestMutex, prior, consumed>>

\* bootstrap.Main when BazelEnabled() is false: the singleton runs, and
\* modules ask BazelEnabled().
MainPass ==
    /\ pc = "main"
    /\ \/ BazelEnabled /\ UNCHANGED <<rules, ninjaFileDeps>>
       \/ GenerateBuildActions
    /\ UNCHANGED <<pc, env, fs, labelLists, prior, consumed, threads, requestMutex, paths>>

\* bootstrap.Main has returned, and doChosenActivity returns.
MainReturn ==
    /\ pc = "main"
    /\ CanCall
    /\ pc' = "returned"
    /\ UNCHANGED <<ctx, requests, results, buildStatements, issued, ret, ipc, cqueryOutput,
                   err, buildFile, cqueryFile, env, fs, labelLists, paths, rules, ninjaFileDeps, threads,
                   requestMutex, prior, consumed>>

soongBuild ==
    \/ NewBazelContext
    \/ DoChosenActivity
    \/ RunBp2Build
    \/ MainPass
    \/ MainReturn
    \/ runMixedModeBuild

SpecActivity == InitActivity /\ [][soongBuild]_vars

-----------------------------------------------------------------------------
(* Package bazel (bazel/properties.go): LabelList.Append and UniqueBazelLabels. *)

\* The label strings of the model, in the order of Go's < on strings.
LabelStrings == <<"//a", "//b">>

\* a < b on strings
StringLess(a, b) ==
    \E i, j \in DOMAIN LabelStrings :
        LabelStrings[i] = a /\ LabelStrings[j] = b /\ i < j

\* The values of type Label
LabelValues == [Label : Range(LabelStrings), OriginalModuleName : {"m", "n"}]

\* The labels of the lists given to Append, and the lists.
AppendLabels == {l \in LabelValues : l.OriginalModuleName = "m"}
AppendSlices == UNION {[1..n -> AppendLabels] : n \in 0..MaxAppend}

\* LabelList.Append: ll after ll.Append(other).  Lines 120-122 append
\* other.Includes to ll.Includes; line 124 appends other.Excludes to
\* other.Excludes.
LabelListAppend(ll, other) ==
    [Includes |-> IF Len(ll.Includes) > 0 \/ Len(other.Includes) > 0
                  THEN ll.Includes \o other.Includes
                  ELSE ll.Includes,
     Excludes |-> IF Len(ll.Excludes) > 0 \/ Len(other.Excludes) > 0
                  THEN other.Excludes \o other.Excludes
                  ELSE ll.Excludes]

\* A caller is about to call ll.Append(other).
InitAppend ==
    /\ ctx = "noop"
    /\ env = BuildEnv
    /\ paths = NilPaths
    /\ requests = {}
    /\ results = <<>>
    /\ buildStatements = <<>>
    /\ issued = <<>>
    /\ ret = NoCall
    /\ ipc = "idle"
    /\ cqueryOutput = <<>>
    /\ err = NoErr
    /\ buildFile = NoBuildFile
    /\ cqueryFile = NoCqueryFile
    /\ rules = <<>>
    /\ ninjaFileDeps = <<>>
    /\ threads = <<>>
    /\ requestMutex = Unlocked
    /\ prior = <<>>
    /\ fs = NoFiles
    /\ labelLists \in [ll    : [Includes : AppendSlices, Excludes : AppendSlices],
                       other : [Includes : AppendSlices, Excludes : AppendSlices]]
    /\ consumed = {}
    /\ pc = "append"

\* ll.Append(other)
AppendCall ==
    /\ pc = "append"
    /\ labelLists' = [labelLists EXCEPT !.ll = LabelListAppend(labelLists.ll, labelLists.other)]
    /\ pc' = "appended"
    /\ UNCHANGED <<ctx, requests, results, buildStatements, issued, ret, ipc, cqueryOutput,
                   err, buildFile, cqueryFile, env, fs, paths, rules, ninjaFileDeps, threads,
                   requestMutex, prior, consumed>>

SpecAppend == InitAppend /\ [][AppendCall]_vars

RECURSIVE SliceStable(_)
\* sort.SliceStable with the less of line 137: the labels in ascending order
\* of their Label strings, labels of one Label string in the order they had.
SliceStable(s) ==
    IF s = <<>> THEN <<>>
    ELSE LET n      == Len(s)
             sorted == SliceStable(SubSeq(s, 1, n - 1))
             x      == s[n]
             after  == {i \in DOMAIN sorted : StringLess(x.Label, sorted[i].Label)}
             at     == IF after = {} THEN Len(sorted) + 1 ELSE Min(after)
         IN SubSeq(sorted, 1, at - 1) \o <<x>> \o SubSeq(sorted, at, Len(sorted))

\* UniqueBazelLabels: the slices it may return.  The set of the labels is a
\* map; the loop of line 134 takes its keys in the order of the map
\* iteration, which is any order.
UniqueBazelLabels(originalLabels) ==
    {SliceStable(order) : order \in Perms(Range(originalLabels))}

\* The slices given to UniqueBazelLabels.
LabelSlices == UNION {[1..n -> LabelValues] : n \in 0..MaxLabels}

\* A caller is about to call UniqueBazelLabels(originalLabels).
InitUnique ==
    /\ ctx = "noop"
    /\ env = BuildEnv
    /\ paths = NilPaths
    /\ requests = {}
    /\ results = <<>>
    /\ buildStatements = <<>>
    /\ issued = <<>>
    /\ ret = NoCall
    /\ ipc = "idle"
    /\ cqueryOutput = <<>>
    /\ err = NoErr
    /\ buildFile = NoBuildFile
    /\ cqueryFile = NoCqueryFile
    /\ rules = <<>>
    /\ ninjaFileDeps = <<>>
    /\ threads = <<>>
    /\ requestMutex = Unlocked
    /\ prior = <<>>
    /\ fs = NoFiles
    /\ labelLists \in [originalLabels : LabelSlices, uniqueLabels : {<<>>},
                       again : {<<>>}, reapplied : {<<>>}]
    /\ consumed = {}
    /\ pc = "unique"

\* uniqueLabels := UniqueBazelLabels(originalLabels)
UniqueCall ==
    /\ pc = "unique"
    /\ \E r \in UniqueBazelLabels(labelLists.originalLabels) :
          labelLists' = [labelLists EXCEPT !.uniqueLabels = r]
    /\ pc' = "called"

\* A second call with the same originalLabels.
UniqueCallAgain ==
    /\ pc = "called"
    /\ \E r \in UniqueBazelLabels(labelLists.originalLabels) :
          labelLists' = [labelLists EXCEPT !.again = r]
    /\ pc' = "calledAgain"

\* UniqueBazelLabels(uniqueLabels)
UniqueCallOnResult ==
    /\ pc = "calledAgain"
    /\ \E r \in UniqueBazelLabels(labelLists.uniqueLabels) :
          labelLists' = [labelLists EXCEPT !.reapplied = r]
    /\ pc' = "reapplied"

UniqueNext ==
    /\ (UniqueCall \/ UniqueCallAgain \/ UniqueCallOnResult)
    /\ UNCHANGED <<ctx, requests, results, buildStatements, issued, ret, ipc, cqueryOutput,
                   err, buildFile, cqueryFile, env, fs, paths, rules, ninjaFileDeps, threads,
                   requestMutex, prior, consumed>>

SpecUnique == InitUnique /\ [][UniqueNext]_vars

-----------------------------------------------------------------------------
(* Properties. *)

\* get_fact: the getter of the key's request type, called for the key.
GetFact(key) ==
    IF key.requestType = "getOutputFiles"
    THEN GetOutputFiles(key.label, key.archType)
    ELSE GetCcInfo(key.label, key.archType)

\* The getter that answers a key.
GetterName(key) ==
    IF key.requestType = "getOutputFiles" THEN "GetOutputFiles" ELSE "GetCcInfo"

\* The last call was a getter of the bazelContext, and it has returned.
GetterReturned ==
    /\ ctx = "bazel"
    /\ ret.state = "returned"
    /\ ret.op \in {"GetOutputFiles", "GetCcInfo"}

\* The last call was InvokeBazel on the bazelContext, and it has returned.
InvokeReturned ==
    /\ ctx = "bazel"
    /\ ipc = "idle"
    /\ ret.state = "returned"
    /\ ret.op = "InvokeBazel"

\* The output has a line that starts with the id and ">>".
HasLine(output, id) ==
    LET lines == Split(output, NL)
    IN \E i \in DOMAIN lines : HasPrefix(lines[i], id \o Sep)

\* What follows the id and ">>" on the last line of the output that starts
\* with them.
LastPayload(output, id) ==
    LET lines == Split(output, NL)
        at    == {i \in DOMAIN lines : HasPrefix(lines[i], id \o Sep)}
        last  == CHOOSE i \in at : \A j \in at : j <= i
    IN SubSeq(lines[last], Len(id) + Len(Sep) + 1, Len(lines[last]))

\* C1: a getter called on the bazelContext for a key that is in results
\* returns the value results holds for the key, with ok = true, and leaves
\* requests and results as they were.
C1_ResolvedLookupIsPure ==
    [][\A key \in Keys :
          (ctx = "bazel" /\ key \in DOMAIN results /\ GetFact(key)) =>
              /\ ret' = Returned(GetterName(key), key, results[key], TRUE, NoErr)
              /\ requests' = requests
              /\ results' = results]_vars

\* A getter has answered from results while nothing was queued.
C1_Witness ==
    /\ GetterReturned
    /\ ret.ok
    /\ ret.key \in DOMAIN results
    /\ ret.value = results[ret.key]
    /\ requests = {}

\* C2: a getter called on the bazelContext for a key that is not in results
\* returns the empty value with ok = false; after it the key is in requests,
\* every key that was in requests still is, and results is as it was.
C2_UnresolvedLookupQueues ==
    [][\A key \in Keys :
          (ctx = "bazel" /\ key \notin DOMAIN results /\ GetFact(key)) =>
              /\ ret' = Returned(GetterName(key), key, <<>>, FALSE, NoErr)
              /\ key \in requests'
              /\ requests \subseteq requests'
              /\ results' = results]_vars

\* A getter has queued its key next to a key queued before.
C2_Witness ==
    /\ GetterReturned
    /\ ~ret.ok
    /\ ret.key \in requests
    /\ ret.key \notin DOMAIN results
    /\ \E other \in requests : other # ret.key

\* C3: once a key is resolved (in results, and not in requests any more), it
\* stays so with the same value over every later step, whichever call takes
\* it, and a getter called for it returns that value with ok = true.
C3_IdempotentCaching ==
    [][\A key \in Keys :
          (ctx = "bazel" /\ key \in DOMAIN results /\ key \notin requests) =>
              /\ key \in DOMAIN results'
              /\ results'[key] = results[key]
              /\ key \notin requests'
              /\ GetFact(key) => (ret'.ok /\ ret'.value = results[key])]_vars

\* C4: when InvokeBazel returns nil, every key that was in requests during
\* the call is in results; and when the id of a key in requests starts no
\* line of the query output, InvokeBazel returns an error.
C4_Completeness ==
    [][/\ (ipc # "idle" /\ ipc' = "idle" /\ ret'.err = NoErr) =>
              requests \subseteq DOMAIN results'
       /\ (ipc = "demux" /\ \E key \in requests : ~HasLine(cqueryOutput, getCqueryId(key))) =>
              (ipc' = "idle" /\ ret'.state = "returned" /\ ret'.err # NoErr)]_vars

\* InvokeBazel has returned nil after resolving two keys.
C4_Witness ==
    /\ InvokeReturned
    /\ ret.err = NoErr
    /\ requests = {}
    /\ Cardinality(DOMAIN results) >= 2

\* C5: a command that the runner answered with an error is the last command
\* InvokeBazel issues, and InvokeBazel returns an error.
C5_ProcessErrorsSurface ==
    /\ \A i \in DOMAIN issued : issued[i].failed => i = Len(issued)
    /\ (InvokeReturned /\ \E i \in DOMAIN issued : issued[i].failed) => ret.err # NoErr

\* How many times the command is in the log of issued commands.
TimesIssued(command) ==
    Cardinality({i \in DOMAIN issued : issued[i].command = command})

\* C6: in a run of runMixedModeBuild the cquery command is issued at most
\* once and the aquery command is issued at most once.
C6_AtMostOnce ==
    /\ TimesIssued(cqueryCommand) <= 1
    /\ TimesIssued(aqueryCommand) <= 1

\* The run is over: both commands were issued, two keys were resolved, and a
\* getter of the second pass was answered from results.
C6_Witness ==
    /\ pc = "done"
    /\ TimesIssued(cqueryCommand) = 1
    /\ TimesIssued(aqueryCommand) = 1
    /\ Cardinality(DOMAIN results) >= 2
    /\ GetterReturned
    /\ ret.ok

ArmKey == BaseKey
X86Key == [BaseKey EXCEPT !.archType = X86_64]

\* BUILD.bazel has a config_node for arm64 and another config_node, of another
\* name, for x86_64, and each has the canonical label among its deps.
TwoConfigNodes(file) ==
    \E i, j \in DOMAIN file.configNodes :
        LET arm == file.configNodes[i]
            x86 == file.configNodes[j]
        IN /\ arm.name # x86.name
           /\ arm.arch = <<"arm64">>
           /\ x86.arch = <<"x86_64">>
           /\ Quoted(canonicalizeLabel(ArmKey.label)) \in Range(arm.deps)
           /\ Quoted(canonicalizeLabel(X86Key.label)) \in Range(x86.deps)

\* C8, between the steps: the two requests have two ids; while InvokeBazel
\* runs with both in requests, the BUILD.bazel it wrote has a config_node for
\* each of the two architectures.
C8_TwoTargets ==
    /\ getCqueryId(ArmKey) # getCqueryId(X86Key)
    /\ (ipc # "idle" /\ {ArmKey, X86Key} \subseteq requests) => TwoConfigNodes(buildFile)

\* C8, over the steps: a getter call on the bazelContext for one of the two
\* requests queues it unless it is resolved, and leaves the
\* other in requests; when the loop over requests ends without an error,
\* results holds for each of the two the payload of the last output line of
\* its own id.
C8_TwoEntries ==
    /\ \A key \in {ArmKey, X86Key} :
          (ctx = "bazel" /\ GetFact(key)) => requests' \cap {ArmKey, X86Key} = (requests \cap {ArmKey, X86Key}) \cup ({key} \ DOMAIN results)
    /\ (ipc = "demux" /\ ipc' = "issueAquery" /\ {ArmKey, X86Key} \subseteq requests) =>
          \A key \in {ArmKey, X86Key} :
              /\ key \in DOMAIN results'
              /\ results'[key] = LastPayload(cqueryOutput, getCqueryId(key))

\* C8: a request under arm64 and the request for the same label and request
\* type under x86_64 are two keys of requests, have two ids, get two
\* config_node targets in BUILD.bazel, and after a cycle without error have
\* two entries in results, each with the payload of the line of its own id.
C8_ArchTaggingNeverCollides ==
    []C8_TwoTargets /\ [][C8_TwoEntries]_vars

\* InvokeBazel has returned nil with the two requests resolved to two
\* payloads and a BUILD.bazel of two config_nodes.
C8_Witness ==
    /\ InvokeReturned
    /\ ret.err = NoErr
    /\ {ArmKey, X86Key} \subseteq DOMAIN results
    /\ results[ArmKey] # results[X86Key]
    /\ TwoConfigNodes(buildFile)

\* The line of the scenario: the id, ">>", the name of the request type, ">>"
\* and the detail.
ScenarioLine(key) == getCqueryId(key) \o Sep \o Name(key.requestType) \o Sep \o Detail

\* The request of the scenario is the one request queued and the query output
\* is the line of the scenario.
ScenarioAtDemux ==
    /\ ctx = "bazel"
    /\ ipc = "demux"
    /\ requests = {BaseKey}
    /\ cqueryOutput = ScenarioLine(BaseKey)

OtherMethods ==
    {"GetOutputFiles", "GetCcInfo", "InvokeBazel", "OutputBase", "BuildStatementsToRegister"}

\* C10, as stated: on the noopBazelContext every method other than
\* BazelEnabled panics, and BazelEnabled returns false.
C10_NoopAlwaysPanics ==
    ctx = "noop" =>
        /\ ret.op \in OtherMethods => ret.state = "panicked"
        /\ ret.op = "BazelEnabled" => (ret.state = "returned" /\ ~ret.ok)

\* C10, amended: on the noopBazelContext GetOutputFiles, GetCcInfo and
\* InvokeBazel panic; OutputBase returns the empty string,
\* BuildStatementsToRegister returns the empty list and BazelEnabled returns
\* false.
C10_NoopPanicsOnRequests ==
    ctx = "noop" =>
        /\ ret.op \in {"GetOutputFiles", "GetCcInfo", "InvokeBazel"} => ret.state = "panicked"
        /\ ret.op \in {"OutputBase", "BuildStatementsToRegister"} =>
              (ret.state = "returned" /\ ret.value = <<>>)
        /\ ret.op = "BazelEnabled" => (ret.state = "returned" /\ ~ret.ok)

\* InvokeBazel was called on the noopBazelContext and panicked.
C10_Witness ==
    /\ ctx = "noop"
    /\ ret.op = "InvokeBazel"
    /\ ret.state = "panicked"

\* The last call was a getter of the MockBazelContext, and it has returned.
MockGetterReturned ==
    /\ ctx = "mock"
    /\ ret.state = "returned"
    /\ ret.op \in {"GetOutputFiles", "GetCcInfo"}

\* The map a getter of the MockBazelContext reads.
SeededFor(op) == IF op = "GetOutputFiles" THEN LabelToOutputFiles ELSE LabelToCcInfo

\* C11, as stated: the getters of the MockBazelContext return ok = true for
\* every label and architecture, seeded or not.
C11_MockAlwaysReady ==
    MockGetterReturned => ret.ok

\* C11, amended: a getter of the MockBazelContext returns ok = true and the
\* seeded answer when the label, as passed, is seeded in the getter's map,
\* whatever the architecture; it returns ok = false and no answer when the
\* label is not seeded.
C11_MockReadyIffSeeded ==
    MockGetterReturned =>
        IF ret.key.label \in DOMAIN SeededFor(ret.op)
        THEN ret.ok /\ ret.value = SeededFor(ret.op)[ret.key.label]
        ELSE ~ret.ok /\ ret.value = <<>>

\* GetOutputFiles of the MockBazelContext has answered a label that is not
\* seeded.
C11_Witness ==
    /\ MockGetterReturned
    /\ ret.op = "GetOutputFiles"
    /\ ret.key.label \notin DOMAIN LabelToOutputFiles
    /\ ~ret.ok

\* The required settings that are absent from the environment.
AbsentEnvVars == {RequiredEnvVars[i] : i \in {j \in DOMAIN RequiredEnvVars : env[RequiredEnvVars[j]] = <<>>}}

\* NewBazelContext has returned for an environment that asks for bazel.
ConfiguredForBazel ==
    /\ pc = "configured"
    /\ ret.op = "NewBazelContext"
    /\ env["USE_BAZEL_ANALYSIS"] = <<"1">>

\* C12: bazelPathsFromConfig returns an error exactly when a required
\* setting is absent; the error names the absent settings, all of them and
\* no other; and when it returns no error every setting that has a non-empty
\* value is copied to its field of the paths.
C12_ConfigErrorsInFull ==
    ConfiguredForBazel =>
        /\ (ret.err # NoErr) <=> (AbsentEnvVars # {})
        /\ ret.err # NoErr =>
              (ret.err.kind = "missing env vars" /\ Range(ret.err.vars) = AbsentEnvVars)
        /\ ret.err = NoErr =>
              \A i \in DOMAIN RequiredEnvVars :
                  env[RequiredEnvVars[i]] # <<>> =>
                      paths[PathsField[i]] = env[RequiredEnvVars[i]]

\* The directory change that starts the command of a rule.
CdExecRoot == <<"cd">> \o paths.outputBase \o <<"/", "execroot", "/", "__main__", "&&">>

\* The bazelSingleton has run on the bazelContext.
Spliced == ctx = "bazel" /\ pc = "spliced"

\* Every build statement has a command.
AllCommands == \A i \in DOMAIN buildStatements : buildStatements[i].Command # <<>>

\* C13: on the bazelContext, when every build statement has a command, the
\* bazelSingleton builds one rule per statement, in the order of the list;
\* the command of the rule is the directory change to
\* <outputBase>/execroot/__main__ and then the statement's command; its
\* implicit outputs are the statement's output paths and its implicit inputs
\* the statement's input paths, one each and in order; it has a depfile
\* exactly when the statement has one; and it is a restat rule.
C13_SplicingShape ==
    (Spliced /\ AllCommands) =>
        /\ ret.state = "returned"
        /\ Len(rules) = Len(buildStatements)
        /\ \A i \in DOMAIN buildStatements :
              LET stmt == buildStatements[i]
                  rule == rules[i]
              IN /\ rule.text = CdExecRoot \o stmt.Command
                 /\ Len(rule.implicitOutputs) = Len(stmt.OutputPaths)
                 /\ \A j \in DOMAIN stmt.OutputPaths :
                       rule.implicitOutputs[j].bazelOut = stmt.OutputPaths[j]
                 /\ Len(rule.implicits) = Len(stmt.InputPaths)
                 /\ \A j \in DOMAIN stmt.InputPaths :
                       rule.implicits[j].bazelOut = stmt.InputPaths[j]
                 /\ (rule.depFiles # <<>>) <=> (stmt.Depfile # <<>>)
                 /\ \A j \in DOMAIN rule.depFiles : rule.depFiles[j].bazelOut = stmt.Depfile[j]
                 /\ rule.restat

\* The bazelSingleton has built two rules, the first for a statement without
\* a depfile and the second for a statement with one.
C13_Witness ==
    /\ Spliced
    /\ AllCommands
    /\ Len(rules) = 2
    /\ rules[1].depFiles = <<>>
    /\ rules[2].depFiles # <<>>
    /\ Len(rules[2].implicitOutputs) = 2

\* The positions of the build statements that have no command.
EmptyCommands == {i \in DOMAIN buildStatements : buildStatements[i].Command = <<>>}

\* C14: no rule has an empty command; and when a build statement of the
\* bazelContext has an empty command, the bazelSingleton panics at the first
\* such statement, having built rules for the statements before it only.
C14_EmptyCommandNeverARule ==
    /\ \A i \in DOMAIN rules : Len(rules[i].text) > Len(CdExecRoot)
    /\ (Spliced /\ EmptyCommands # {}) =>
          /\ ret.state = "panicked"
          /\ ret.op = "GenerateBuildActions"
          /\ \A i \in EmptyCommands : Len(rules) < i

\* The bazelSingleton has panicked at a second statement, which has no
\* command, after building the rule of the first.
C14_Witness ==
    /\ Spliced
    /\ ret.state = "panicked"
    /\ Len(rules) = 1
    /\ EmptyCommands = {2}

\* The goroutines that are between Lock() and Unlock().
InCriticalSection == {w \in DOMAIN threads : threads[w].at \in {"insert", "store", "unlock"}}

\* The keys the goroutines asked for that were not in results.
KeysRequested == {threads[w].key : w \in DOMAIN threads} \ DOMAIN results

\* C15: whatever the interleaving of the goroutines that call cquery while no
\* InvokeBazel runs, at most one of them is between Lock() and Unlock() of
\* requestMutex, the holder is that one, requests never holds a key that was
\* not asked for, and when all calls have returned requests is exactly the
\* set of the unresolved keys that were asked for.
C15_ConcurrentCquery ==
    /\ Cardinality(InCriticalSection) <= 1
    /\ \A w \in InCriticalSection : requestMutex = w
    /\ requests \subseteq KeysRequested
    /\ (\A w \in DOMAIN threads : threads[w].at = "returned") => requests = KeysRequested

\* Two goroutines that asked for different unresolved keys have both
\* returned, and both keys are pending.
C15_Witness ==
    /\ pc = "workers"
    /\ \A w \in DOMAIN threads : threads[w].at = "returned"
    /\ Cardinality(requests) = 2
    /\ requestMutex = Unlocked

\* How far runMixedModeBuild has come.
PassRank(at) ==
    CASE at = "firstPass"  -> 0
      [] at = "invoke"     -> 1
      [] at = "secondPass" -> 2
      [] OTHER             -> 3

\* This step is the call of InvokeBazel.
InvokeBegins == ipc = "idle" /\ (ipc' # "idle" \/ (ret'.op = "InvokeBazel" /\ ret' # ret))

\* C16: in runMixedModeBuild, InvokeBazel is called from the first pass only,
\* and the first pass is over with that call; the second pass starts only
\* from an InvokeBazel that has returned no error; when InvokeBazel has
\* returned an error the only step is the exit with status 1, after which
\* nothing happens; and the run never goes back, so InvokeBazel is not called
\* again.
C16_TwoPassOrder ==
    [][/\ InvokeBegins => (pc = "firstPass" /\ pc' = "invoke")
       /\ (pc' = "secondPass" /\ pc # "secondPass") =>
             (pc = "invoke" /\ InvokeReturned /\ ret.err = NoErr)
       /\ (pc = "invoke" /\ InvokeReturned /\ ret.err # NoErr) => pc' = "exit1"
       /\ pc # "exit1"
       /\ PassRank(pc') >= PassRank(pc)
       /\ pc' = "firstPass" => pc = "firstPass"]_vars

\* The run has exited with status 1 on the error of the cquery command, with
\* no rule built and no aquery command issued.
C16_Witness ==
    /\ pc = "exit1"
    /\ InvokeReturned
    /\ ret.err # NoErr
    /\ TimesIssued(cqueryCommand) = 1
    /\ TimesIssued(aqueryCommand) = 0

\* C17: when InvokeBazel has returned nil, requests is empty, and every entry
\* results held when InvokeBazel was called is in results with the same value.
C17_ResolvedPersists ==
    (InvokeReturned /\ ret.err = NoErr) =>
        /\ requests = {}
        /\ \A key \in DOMAIN prior :
              key \in DOMAIN results /\ results[key] = prior[key]

\* C18: the cquery command is never issued with a key pending that was
\* pending when an earlier cquery command of the process was issued.
C18_ConsumedOnce ==
    [][(ipc = "issueCquery" /\ ipc' # "issueCquery") => requests \cap consumed = {}]_vars

\* The places of a line where ">>" starts.
TagsOf(line) == {i \in 1..Len(line) : i < Len(line) /\ line[i] = ">" /\ line[i + 1] = ">"}

\* The text of a line before its first ">>", and all the text after it.
IdOfLine(line) == SubSeq(line, 1, Min(TagsOf(line)) - 1)
PayloadOfLine(line) == SubSeq(line, Min(TagsOf(line)) + 2, Len(line))

\* C19: in the step of InvokeBazel that reads the query output, the output
\* is taken line by line; a key of requests gets a value only from a line
\* that has ">>" and whose text before the first ">>" is the id of the key,
\* the value is all the text of that line after the first ">>", further ">>"
\* included, and of several such lines the last one counts; a key whose id
\* is before the first ">>" of some line does get a value unless the loop
\* has ended before on another key.
C19_ParsingRule ==
    [][(ctx = "bazel" /\ ipc = "demux") =>
          LET lines  == Split(cqueryOutput, NL)
              tagged == {i \in DOMAIN lines : TagsOf(lines[i]) # {}}
              of(key) == {i \in tagged : IdOfLine(lines[i]) = getCqueryId(key)}
          IN \A key \in requests :
                /\ key \in DOMAIN results' =>
                      /\ of(key) # {}
                      /\ \E i \in of(key) :
                            /\ \A j \in of(key) : j <= i
                            /\ results'[key] = PayloadOfLine(lines[i])
                /\ (of(key) # {} /\ ipc' = "issueAquery") => key \in DOMAIN results'
                /\ (of(key) = {}) => (ipc' = "idle" /\ ret'.err # NoErr)]_vars

\* The loop over requests has ended without an error with two keys resolved,
\* one to a payload that holds a further ">>" and one to a payload without.
C19_Witness ==
    /\ ctx = "bazel"
    /\ ipc = "issueAquery"
    /\ \E k1, k2 \in DOMAIN results :
          /\ TagsOf(results[k1]) # {}
          /\ TagsOf(results[k2]) = {}
          /\ results[k2] # <<>>

\* C20: two different keys that are pending on the bazelContext at the same
\* time never have the same id.
C20_DistinctIds ==
    ctx = "bazel" =>
        \A k1, k2 \in requests : k1 # k2 => getCqueryId(k1) # getCqueryId(k2)

\* C21: on the bazelContext, whenever no InvokeBazel is running, the state
\* after an InvokeBazel that returned an error included, no key is both in
\* requests and in results.
C21_PendingResolvedDisjoint ==
    (ctx = "bazel" /\ ipc = "idle") => requests \cap DOMAIN results = {}

\* C22: a key for which a getter of the bazelContext has returned ok = false
\* is in requests after the call, and a key that is in requests or in
\* results is in requests or in results after every step, whatever the
\* number of InvokeBazel calls.
C22_NoRequestLost ==
    [][\A key \in Keys :
          /\ (ctx = "bazel" /\ GetFact(key) /\ ~ret'.ok) => key \in requests'
          /\ (ctx = "bazel" /\ key \in requests \cup DOMAIN results) =>
                key \in requests' \cup DOMAIN results']_vars

\* This step issues the command to the runner.
Issues(command) ==
    /\ Len(issued') = Len(issued) + 1
    /\ issued'[Len(issued')].command = command

\* The order of the steps of one InvokeBazel: the cquery command is issued
\* first, after the script files were written from requests as it is; the
\* aquery command after the cquery command, with every key of requests in
\* results; the build command after an aquery command that did not fail; and
\* requests changes in the last step only.
PipelineOrderStep ==
    /\ Issues(cqueryCommand) =>
          (issued = <<>> /\ buildFile \in BuildFiles(requests))
    /\ Issues(aqueryCommand) =>
          /\ Len(issued) = 1
          /\ issued[1].command = cqueryCommand
          /\ requests \subseteq DOMAIN results
    /\ Issues(buildCommand) =>
          /\ Len(issued) = 2
          /\ issued[2] = Issued(aqueryCommand, NoErr)
    /\ (ipc # "idle" /\ requests' # requests) => ipc = "issueBuild"

\* C23: the steps of one InvokeBazel on the bazelContext are in the order of
\* the pipeline, and InvokeBazel comes to clear requests only with the three
\* commands issued and none of them failed.
C23_PipelineOrder ==
    [][ctx = "bazel" =>
          /\ PipelineOrderStep
          /\ (ipc = "issueBuild" /\ ret'.err = NoErr) =>
                /\ requests' = {}
                /\ Len(issued') = 3
                /\ \A i \in DOMAIN issued' : ~issued'[i].failed]_vars

\* The architecture strings of these requests, and the requests of one.
ArchStringsOf(reqs) == {getArchString(k) : k \in reqs}
RequestsOfArch(reqs, archString) == {k \in reqs : getArchString(k) = archString}

\* The root build file declares one config_node for each architecture string
\* of the requests and no other, with that string as its name and its arch,
\* and with one dep for each request of the architecture, the deps being the
\* quoted canonical labels of these requests; buildroot has one dep for each
\* config_node, ":" and its name; phonyroot has the one dep ":buildroot".
RootOf(file, reqs) ==
    /\ Len(file.configNodes) = Cardinality(ArchStringsOf(reqs))
    /\ {file.configNodes[i].name : i \in DOMAIN file.configNodes} = ArchStringsOf(reqs)
    /\ \A i \in DOMAIN file.configNodes :
          LET node == file.configNodes[i]
              mine == RequestsOfArch(reqs, node.name)
          IN /\ node.arch = node.name
             /\ Len(node.deps) = Cardinality(mine)
             /\ Range(node.deps) = {Quoted(canonicalizeLabel(k.label)) : k \in mine}
    /\ Len(file.buildrootDeps) = Len(file.configNodes)
    /\ Range(file.buildrootDeps) =
          {Quoted(<<":">> \o file.configNodes[i].name) : i \in DOMAIN file.configNodes}
    /\ file.phonyrootDeps = <<Quoted(<<":", "buildroot">>)>>

\* C24: while InvokeBazel runs on the bazelContext, the BUILD.bazel it wrote
\* has the structure of the root build file for the requests.
C24_RootBuildFile ==
    (ctx = "bazel" /\ ipc # "idle") => RootOf(buildFile, requests)

\* InvokeBazel runs with a request under x86_64 and one under the zero
\* architecture, and BUILD.bazel has the one config_node x86_64 with two deps.
C24_Witness ==
    /\ ctx = "bazel"
    /\ ipc = "issueCquery"
    /\ requests = {X86Key, [BaseKey EXCEPT !.archType = NoArch]}
    /\ Len(buildFile.configNodes) = 1
    /\ buildFile.configNodes[1].name = <<"x86_64">>
    /\ Len(buildFile.configNodes[1].deps) = 2

\* C25: the two script files written for a request set are the only ones
\* that can be written for it: the order in which the requests are
\* enumerated does not show in BUILD.bazel or in buildroot.cquery.
C25_DeterministicScripts ==
    pc = "written" =>
        /\ BuildFiles(requests) = {buildFile}
        /\ CqueryFiles(requests) = {cqueryFile}

\* No element is twice in the sequence.
NoDuplicates(seq) == \A i, j \in DOMAIN seq : seq[i] = seq[j] => i = j

\* C26: in the script files written for a request set, no config_node has
\* the same label twice among its deps, and no label map has the same id
\* entry twice.
C26_NoDuplicates ==
    pc = "written" =>
        /\ \A i \in DOMAIN buildFile.configNodes :
              NoDuplicates(buildFile.configNodes[i].deps)
        /\ \A i \in DOMAIN cqueryFile.labelMaps :
              NoDuplicates(cqueryFile.labelMaps[i].entries)

\* The request types of these requests, and the requests of one.
KindsOf(reqs) == {k.requestType : k \in reqs}
RequestsOfKind(reqs, requestType) == {k \in reqs : k.requestType = requestType}

\* The id entry of a request in a label map.
EntryOf(idString) == Quoted(idString) \o <<":", "True">>

\* The ids a target of the build may have: those of the keys, and one more.
TargetIds == {getCqueryId(k) : k \in Keys} \cup {DepId}

\* C27: buildroot.cquery written for a request set has one label map, one
\* function definition and one branch of the main switch for each request
\* type of the requests and no other; the label map of a request type has
\* one entry for each request of the type, the quoted id of the request; the
\* branch of a type tests the label map of the type and calls the function of
\* the type; and format gives the id, ">>" and NONE for a target whose id is
\* in no label map, and for no other target.
C27_ScriptCoverage ==
    pc = "written" =>
        LET kinds == KindsOf(requests)
            file  == cqueryFile
        IN /\ Len(file.labelMaps) = Cardinality(kinds)
           /\ Len(file.functionDefs) = Cardinality(kinds)
           /\ Len(file.mainSwitch) = Cardinality(kinds)
           /\ \A t \in kinds :
                 /\ \E i \in DOMAIN file.labelMaps :
                       /\ file.labelMaps[i].name = Name(t) \o <<"_Labels">>
                       /\ Len(file.labelMaps[i].entries) =
                             Cardinality(RequestsOfKind(requests, t))
                       /\ Range(file.labelMaps[i].entries) =
                             {EntryOf(getCqueryId(k)) : k \in RequestsOfKind(requests, t)}
                 /\ \E i \in DOMAIN file.functionDefs :
                       /\ file.functionDefs[i].name = Name(t) \o <<"_Fn">>
                       /\ file.functionDefs[i].body = t
                 /\ \E i \in DOMAIN file.mainSwitch :
                       /\ file.mainSwitch[i].labels = Name(t) \o <<"_Labels">>
                       /\ file.mainSwitch[i].fn = Name(t) \o <<"_Fn">>
           /\ \A idString \in TargetIds :
                 (format(file, idString) = idString \o Sep \o <<"NONE">>)
                     <=> (idString \notin {getCqueryId(k) : k \in requests})

\* buildroot.cquery was written for requests of the two request types, one of
\* them with two requests, and a target nobody asked for formats as NONE.
C27_Witness ==
    /\ pc = "written"
    /\ Len(cqueryFile.labelMaps) = 2
    /\ \E i \in DOMAIN cqueryFile.labelMaps : Len(cqueryFile.labelMaps[i].entries) = 2
    /\ format(cqueryFile, DepId) = DepId \o Sep \o <<"NONE">>

\* C28: the step of InvokeBazel that reads the query output gives results
\* entries for keys of requests only, whatever lines the output has; and
\* when InvokeBazel returns nil the keys of results are exactly the keys
\* that were in requests during the call.
C28_OnlyRequestedResolved ==
    [][ctx = "bazel" =>
          /\ ipc = "demux" => DOMAIN results' \subseteq requests
          /\ (ipc # "idle" /\ ipc' = "idle" /\ ret'.err = NoErr) =>
                DOMAIN results' = requests]_vars

\* InvokeBazel has read an output with the line of a dependency nobody asked
\* for and the line of a request, has stored the result of the request, and
\* has stored nothing else.
C28_Witness ==
    /\ InvokeReturned
    /\ ret.err.kind = "missing result"
    /\ HasLine(ret.err.output, DepId)
    /\ Cardinality(DOMAIN results) = 1
    /\ DOMAIN results \subseteq requests

\* The part of an id after its "|".
ArchPartOf(idString) ==
    LET bars == {i \in DOMAIN idString : idString[i] = "|"}
        last == CHOOSE i \in bars : \A j \in bars : j <= i
    IN SubSeq(idString, last + 1, Len(idString))

\* C29: for every request the script files were written for, the part of
\* its id after "|" is the name of its architecture, or x86_64 when that
\* name is empty, and BUILD.bazel has a config_node with that string as its
\* name and as its arch whose deps hold the canonical label of the request.
C29_IdAndRootArchAgree ==
    pc = "written" =>
        \A key \in requests :
            LET archPart == ArchPartOf(getCqueryId(key))
            IN /\ archPart = IF key.archType.Name = <<>> THEN <<"x86_64">>
                             ELSE key.archType.Name
               /\ \E i \in DOMAIN buildFile.configNodes :
                     /\ buildFile.configNodes[i].name = archPart
                     /\ buildFile.configNodes[i].arch = archPart
                     /\ Quoted(canonicalizeLabel(key.label))
                           \in Range(buildFile.configNodes[i].deps)

\* The script files were written for a request of the zero architecture and
\* a request under arm64, and BUILD.bazel has the config_nodes x86_64 and
\* arm64.
C29_Witness ==
    /\ pc = "written"
    /\ requests = {[BaseKey EXCEPT !.archType = NoArch], ArmKey}
    /\ {buildFile.configNodes[i].name : i \in DOMAIN buildFile.configNodes}
          = {<<"x86_64">>, <<"arm64">>}

\* C30: NewBazelContext returns the noopBazelContext and no error whenever
\* USE_BAZEL_ANALYSIS is not "1", whatever the five path settings are; when it
\* is "1" it returns a bazelContext with no pending request if and only if
\* the five path settings are all present, and otherwise an error and no
\* context.
C30_ModeSelection ==
    (pc = "configured" /\ ret.op = "NewBazelContext") =>
        IF env["USE_BAZEL_ANALYSIS"] # <<"1">>
        THEN ctx = "noop" /\ ret.err = NoErr
        ELSE /\ (ctx = "bazel") <=> (AbsentEnvVars = {})
             /\ ctx = "bazel" => (requests = {} /\ ret.err = NoErr)
             /\ ctx # "bazel" => (ctx = "none" /\ ret.err # NoErr)

\* C31: a call of cquery issues no bazel command, and under a fair scheduler
\* every call of every goroutine returns: all it ever waits for is
\* requestMutex, which its holder releases after one insertion.
C31_CqueryNeverWaitsOnBazel ==
    /\ [][issued' = issued]_vars
    /\ \A w \in Workers : (threads[w].at = "call") ~> (threads[w].at = "returned")

\* A goroutine waits in Lock() while another one holds requestMutex, and no
\* bazel command has been issued.
C31_Witness ==
    /\ pc = "workers"
    /\ issued = <<>>
    /\ \E w \in DOMAIN threads :
          /\ threads[w].at = "lock"
          /\ requestMutex \in DOMAIN threads \ {w}

\* C32: a call of InvokeBazel that returns an error leaves requests as it
\* was before the call: no step of a running InvokeBazel changes requests,
\* except the one that returns nil.
C32_FailedCycleKeepsRequests ==
    [][(ret'.op = "InvokeBazel" /\ ~(ret'.state = "returned" /\ ret'.ok))
          => requests' = requests]_vars

\* InvokeBazel has returned the error of the build of the phony root, its
\* last step, and the requests are still pending.
C32_Witness ==
    /\ InvokeReturned
    /\ ret.err = CommandErr(buildCommand)
    /\ Len(issued) = 3
    /\ requests # {}

\* The lines of the output that start with the id of the key and ">>".
LinesOf(output, key) ==
    LET lines == Split(output, NL)
    IN {i \in DOMAIN lines : HasPrefix(lines[i], getCqueryId(key) \o Sep)}

\* C33: when the query output has several lines with the id of a key of
\* requests, the value the key has in results after the lines were read is
\* the payload of the last of these lines, and the key has a value when the
\* loop over requests ends without an error.
C33_LastDuplicateWins ==
    [][(ctx = "bazel" /\ ipc = "demux") =>
          \A key \in requests :
              Cardinality(LinesOf(cqueryOutput, key)) >= 2 =>
                  /\ key \in DOMAIN results' =>
                        results'[key] = LastPayload(cqueryOutput, getCqueryId(key))
                  /\ ipc' = "issueAquery" => key \in DOMAIN results']_vars

\* InvokeBazel has returned for a query output of two lines with the id of
\* one key and two payloads: the key has the payload of the second line (the
\* output is in the error that another key brought about).
C33_Witness ==
    /\ InvokeReturned
    /\ ret.err.kind = "missing result"
    /\ \E key \in DOMAIN results :
          LET lines == Split(ret.err.output, NL)
          IN /\ Len(lines) = 2
             /\ LinesOf(ret.err.output, key) = {1, 2}
             /\ lines[1] # lines[2]
             /\ results[key] = PayloadOfLine(lines[2])
             /\ results[key] # PayloadOfLine(lines[1])

\* C34: GetOutputFiles and GetCcInfo of the bazelContext return ok = true
\* exactly when the key of the label, their request type and the
\* architecture is in results; when it is not, they return the zero value
\* and GetCcInfo a nil error, and all they change is requests, which gains
\* the key.
C34_GettersMirrorCquery ==
    [][\A key \in Keys :
          (ctx = "bazel" /\ GetFact(key)) =>
              /\ ret'.op = GetterName(key)
              /\ ret'.key = key
              /\ ret'.ok <=> key \in DOMAIN results
              /\ ~ret'.ok =>
                    /\ ret'.value = <<>>
                    /\ ret'.err = NoErr
                    /\ requests' = requests \cup {key}
                    /\ UNCHANGED <<results, buildStatements, issued, ipc, cqueryOutput,
                                   err, buildFile, cqueryFile, rules, ninjaFileDeps>>]_vars

\* GetCcInfo has returned not ready and no error for a key that is not in
\* results, which holds another key; the key is the one pending request.
C34_Witness ==
    /\ GetterReturned
    /\ ret.op = "GetCcInfo"
    /\ ~ret.ok
    /\ ret.err = NoErr
    /\ ret.value = <<>>
    /\ DOMAIN results # {}
    /\ ret.key \notin DOMAIN results
    /\ requests = {ret.key}

\* C35: on the noopBazelContext, bazelSingleton.GenerateBuildActions builds
\* no rule and adds no ninja file dependency, and it returns: it calls no
\* method of the noopBazelContext that panics.
C35_SingletonNoopWhenDisabled ==
    (pc = "spliced" /\ ctx = "noop") =>
        /\ rules = <<>>
        /\ ninjaFileDeps = <<>>
        /\ ret = Returned("GenerateBuildActions", NoKey, <<>>, TRUE, NoErr)

\* The bazelSingleton has run on the noopBazelContext and has returned.
C35_Witness ==
    /\ pc = "spliced"
    /\ ctx = "noop"
    /\ ret.op = "GenerateBuildActions"
    /\ ret.state = "returned"

\* The flags of the runner that are the same in every command.
PinnedFlags ==
    << <<"--platforms=", "@sourceroot", "/", "/", "build/bazel/platforms:android_x86_64">>,
       <<"--extra_toolchains=", "@sourceroot", "/", "/", "prebuilts/clang/host/linux-x86:all">>,
       <<"--host_platform=", "@sourceroot", "/", "/", "build/bazel/platforms:linux_x86_64">>,
       <<"--experimental_repository_disable_download">> >>

\* C36: every command the builtinBazelRunner starts has, in this order, the
\* output base of the paths, the command and its expression, the package
\* path under the intermediates directory, a profile file of the metrics
\* directory that is named after the run, the platform, toolchain and host
\* platform labels and the flag that disables downloads, and after these the
\* flags of the caller; and the commands of one InvokeBazel have different
\* run names and different profile files.
C36_BaselineFlags ==
    /\ \A i \in DOMAIN issued :
          LET c == issued[i]
              f == c.cmdFlags
          IN /\ Len(f) = 9 + Len(c.extraFlags)
             /\ f[1] = <<"--output_base=">> \o paths.outputBase
             /\ f[2] = <<c.command.command>>
             /\ f[3] = <<c.command.expression>>
             /\ f[4] = <<"--package_path=%workspace%/", "out", "/", "soong", "/", "bazel">>
             /\ f[5] = <<"--profile=">> \o paths.metricsDir
                          \o <<"/", c.runName, "_bazel_profile.gz">>
             /\ SubSeq(f, 6, 9) = PinnedFlags
             /\ SubSeq(f, 10, Len(f)) = c.extraFlags
    /\ \A i, j \in DOMAIN issued :
          i # j => /\ issued[i].runName # issued[j].runName
                   /\ issued[i].cmdFlags[5] # issued[j].cmdFlags[5]

\* The three commands of one InvokeBazel have been issued, the first of
\* them with the two flags InvokeBazel gives it.
C36_Witness ==
    /\ pc = "ran"
    /\ Len(issued) = 3
    /\ issued[1].command = cqueryCommand
    /\ Len(issued[1].extraFlags) = 2
    /\ issued[3].command = buildCommand

\* C38: after writeFakeNinjaFile, the file build.ninja has the statement
\* "build nothing: phony", and the file build.ninja.d, another file, has the
\* list of the extra ninja deps.
C38_TwoFilesLeft ==
    pc = "fakeNinjaWritten" =>
        /\ BuildNinja \in DOMAIN fs
        /\ fs[BuildNinja] = NothingPhony
        /\ BuildNinjaD \in DOMAIN fs
        /\ fs[BuildNinjaD] = DepsFileContents(ninjaFileDeps)

\* InvokeBazel has been called in this run.
Invoked == issued # <<>> \/ ret.op = "InvokeBazel" \/ pc = "invoke"

\* C37: when GENERATE_BAZEL_FILES is true, soong_build goes through
\* runBp2Build only: it never calls InvokeBazel and never runs an analysis
\* pass of the mixed build, whatever BazelEnabled() says; when it is not
\* true, InvokeBazel is called only if BazelEnabled() is true, and a run that
\* comes to its end has called it if BazelEnabled() is true.
C37_Bp2buildFirst ==
    pc # "newConfig" =>
        IF IsEnvTrue(env, "GENERATE_BAZEL_FILES")
        THEN /\ ~Invoked
             /\ pc \in {"configured", "runBp2Build", "returned"}
        ELSE /\ Invoked => ContextBazelEnabled
             /\ pc \in {"returned", "done"} => (Invoked <=> ContextBazelEnabled)

\* GENERATE_BAZEL_FILES is true and the BazelContext is the bazelContext:
\* soong_build has returned from runBp2Build, and no bazel command was issued.
C37_Witness ==
    /\ pc = "returned"
    /\ ctx = "bazel"
    /\ IsEnvTrue(env, "GENERATE_BAZEL_FILES")
    /\ issued = <<>>
    /\ fs # NoFiles

\* C39: ll.Append(other) leaves in ll.Includes what it held followed by
\* other.Includes, and in ll.Excludes what it held followed by
\* other.Excludes.
C39_AppendFieldWise ==
    [][(pc = "append" /\ pc' = "appended") =>
          /\ labelLists'.ll.Includes = labelLists.ll.Includes \o labelLists.other.Includes
          /\ labelLists'.ll.Excludes = labelLists.ll.Excludes \o labelLists.other.Excludes]_vars

\* C40: the slice UniqueBazelLabels returns holds every Label value of its
\* argument once and no other, in ascending order of the Label strings; a
\* second call with the same argument returns the same slice, and so does a
\* call with the slice as argument.
C40_UniqueSortedDeterministic ==
    pc = "reapplied" =>
        LET u == labelLists.uniqueLabels
        IN /\ Range(u) = Range(labelLists.originalLabels)
           /\ Len(u) = Cardinality(Range(u))
           /\ \A i, j \in DOMAIN u : i < j => ~StringLess(u[j].Label, u[i].Label)
           /\ labelLists.again = u
           /\ labelLists.reapplied = u

====
